---- MODULE Spec2Model ----
(***************************************************************************)
(* Model of mtrtografana-main/mtr_exporter.py: the textual and structured  *)
(* decode of an mtr report, the path-health analysis, the exposition       *)
(* renderer and validator, the atomic writer, and the two drivers          *)
(* (export_to_file, run_config_mode).                                      *)
(*                                                                         *)
(* Representation.  A Python str is a sequence of one-character strings.   *)
(* A Python float is a fixed-point integer counting tenths (mtr prints one *)
(* fractional digit); an int is an integer.  A value decoded from JSON is  *)
(* tagged with its Python type (IntV, FloatV, StrV, NullV).                *)
(***************************************************************************)
EXTENDS Integers, Sequences, FiniteSets, TLC

\* ------------------------------------------------------------------------
\* str primitives
\* ------------------------------------------------------------------------
Digit == {"0", "1", "2", "3", "4", "5", "6", "7", "8", "9"}

DigitVal(c) ==
  CASE c = "0" -> 0 [] c = "1" -> 1 [] c = "2" -> 2 [] c = "3" -> 3
    [] c = "4" -> 4 [] c = "5" -> 5 [] c = "6" -> 6 [] c = "7" -> 7
    [] c = "8" -> 8 [] c = "9" -> 9

DigitChar(d) == <<"0", "1", "2", "3", "4", "5", "6", "7", "8", "9">>[d + 1]

\* the characters str.strip() and str.split() treat as whitespace
Whitespace == {" ", "\t", "\n", "\r"}

\* least and greatest element of a non-empty set of integers
SetMin(S) == CHOOSE x \in S : \A y \in S : x <= y
SetMax(S) == CHOOSE x \in S : \A y \in S : y <= x

\* str.strip()
Strip(s) ==
  IF \A i \in 1..Len(s) : s[i] \in Whitespace THEN <<>>
  ELSE LET lo == CHOOSE i \in 1..Len(s) :
                   s[i] \notin Whitespace /\ \A j \in 1..(i - 1) : s[j] \in Whitespace
           hi == CHOOSE i \in 1..Len(s) :
                   s[i] \notin Whitespace
                   /\ \A j \in (i + 1)..Len(s) : s[j] \in Whitespace
       IN SubSeq(s, lo, hi)

\* str.rstrip(c) for a single character c
RStripChar(s, c) ==
  IF \A i \in 1..Len(s) : s[i] = c THEN <<>>
  ELSE SubSeq(s, 1, CHOOSE i \in 1..Len(s) :
                      s[i] # c /\ \A j \in (i + 1)..Len(s) : s[j] = c)

\* str.split(sep) for a single character sep: never empty, keeps empty fields
Split(s, sep) ==
  LET at == {i \in 1..Len(s) : s[i] = sep}
      n == Cardinality(at)
      cut == [k \in 0..(n + 1) |->
                IF k = 0 THEN 0
                ELSE IF k = n + 1 THEN Len(s) + 1
                ELSE CHOOSE i \in at : Cardinality({j \in at : j < i}) = k - 1]
  IN [k \in 1..(n + 1) |-> SubSeq(s, cut[k - 1] + 1, cut[k] - 1)]

\* str.split() without argument: runs of whitespace separate, no empty field
SplitWS(s) ==
  LET first == {i \in 1..Len(s) :
                  s[i] \notin Whitespace /\ (i = 1 \/ s[i - 1] \in Whitespace)}
      last == {i \in 1..Len(s) :
                  s[i] \notin Whitespace /\ (i = Len(s) \/ s[i + 1] \in Whitespace)}
      nth(S, k) == CHOOSE i \in S : Cardinality({j \in S : j < i}) = k - 1
  IN [k \in 1..Cardinality(first) |-> SubSeq(s, nth(first, k), nth(last, k))]

RECURSIVE JoinRange(_, _, _, _)
JoinRange(parts, sep, lo, hi) ==
  IF lo > hi THEN <<>>
  ELSE IF lo = hi THEN parts[lo]
  ELSE LET mid == (lo + hi) \div 2
       IN JoinRange(parts, sep, lo, mid) \o sep \o JoinRange(parts, sep, mid + 1, hi)

\* sep.join(parts)
Join(parts, sep) == JoinRange(parts, sep, 1, Len(parts))

\* str.startswith(p)
StartsWith(s, p) == Len(s) >= Len(p) /\ SubSeq(s, 1, Len(p)) = p

\* str.endswith(p)
EndsWith(s, p) == Len(s) >= Len(p) /\ SubSeq(s, Len(s) - Len(p) + 1, Len(s)) = p

\* p in s
Contains(s, p) ==
  \E i \in 1..(Len(s) - Len(p) + 1) : SubSeq(s, i, i + Len(p) - 1) = p

RECURSIVE DigitsVal(_, _)
DigitsVal(s, acc) ==
  IF s = <<>> THEN acc ELSE DigitsVal(Tail(s), 10 * acc + DigitVal(Head(s)))

AllDigits(s) == \A i \in 1..Len(s) : s[i] \in Digit

RECURSIVE NatToStr(_)
NatToStr(n) ==
  IF n < 10 THEN <<DigitChar(n)>>
  ELSE Append(NatToStr(n \div 10), DigitChar(n % 10))

\* str(n) of an int
IntToStr(n) == IF n < 0 THEN <<"-">> \o NatToStr(0 - n) ELSE NatToStr(n)

\* the result of a conversion that may raise ValueError
Ok(v) == [ok |-> TRUE, v |-> v, exc |-> "none"]
ValueError == [ok |-> FALSE, v |-> 0, exc |-> "ValueError"]
TypeError == [ok |-> FALSE, v |-> 0, exc |-> "TypeError"]
AttributeError == [ok |-> FALSE, v |-> 0, exc |-> "AttributeError"]

Unsigned(s) == IF s # <<>> /\ Head(s) \in {"+", "-"} THEN Tail(s) ELSE s
SignOf(s) == IF s # <<>> /\ Head(s) = "-" THEN 0 - 1 ELSE 1

\* int(s) of a str: surrounding whitespace, an optional sign, decimal digits
PyInt(s) ==
  LET t == Strip(s)
      body == Unsigned(t)
  IN IF body # <<>> /\ AllDigits(body)
     THEN Ok(SignOf(t) * DigitsVal(body, 0))
     ELSE ValueError

\* the float nan, carried as a number outside the range of every figure;
\* every comparison with it is false
NaN == 0 - 1000000

\* float(s) of a str, in tenths: surrounding whitespace, an optional sign,
\* digits with at most one '.', at least one digit, or the letters of
\* 'nan' in either case.  Fraction digits past the first are below the
\* resolution of the fixed-point value.
PyFloat(s) ==
  LET t == Strip(s)
      body == Unsigned(t)
      fld == Split(body, ".")
      ip == fld[1]
      fp == IF Len(fld) > 1 THEN fld[2] ELSE <<>>
  IN IF Len(body) = 3 /\ body[1] \in {"n", "N"} /\ body[2] \in {"a", "A"}
          /\ body[3] \in {"n", "N"}
     THEN Ok(NaN)
     ELSE IF Len(fld) <= 2 /\ AllDigits(ip) /\ AllDigits(fp) /\ Len(ip) + Len(fp) >= 1
     THEN Ok(SignOf(t) * (10 * DigitsVal(ip, 0)
                          + (IF fp = <<>> THEN 0 ELSE DigitVal(fp[1]))))
     ELSE ValueError

\* ------------------------------------------------------------------------
\* values of the decoded report (json.loads result or the text parser's dict)
\* ------------------------------------------------------------------------
IntV(n) == [t |-> "int", n |-> n]
FloatV(n) == [t |-> "float", n |-> n]
StrV(s) == [t |-> "str", s |-> s]
NullV == [t |-> "null"]

\* string literals of the source
S_Start == <<"S", "t", "a", "r", "t", ":">>
S_HOST == <<"H", "O", "S", "T", ":">>
S_Marker == <<"|", "-", "-">>
S_Bar == <<"|">>
S_Silent == <<"?", "?", "?">>
S_hop_ == <<"h", "o", "p", "_">>
S_unknown == <<"u", "n", "k", "n", "o", "w", "n">>

\* ------------------------------------------------------------------------
\* parse_mtr_text_output
\* ------------------------------------------------------------------------
\* index of the first part ending in '%', 0 when there is none
\* (the for/break scan over enumerate(parts))
FindLossIdx(parts) ==
  LET hit == {i \in 1..Len(parts) : EndsWith(parts[i], <<"%">>)}
  IN IF hit = {} THEN 0 ELSE SetMin(hit)

\* a line is taken for a hop line
IsHopLine(line) ==
  Contains(line, S_Marker) \/ (Contains(line, S_Bar) /\ ~StartsWith(line, S_Bar))

\* the dict built for one hop
MakeHub(hop_num, host, loss, sent, last, avg, best, worst, stddev) ==
  [count |-> IntV(hop_num), host |-> StrV(host), Loss |-> FloatV(loss),
   Snt |-> IntV(sent), Last |-> FloatV(last), Avg |-> FloatV(avg),
   Best |-> FloatV(best), Wrst |-> FloatV(worst), StDev |-> FloatV(stddev)]

\* the numeric tail with best and worst taken from each other's token
TailHubBestWorstSwapped(hop_num, host, loss, np) ==
  LET sent == PyInt(np[1])
      last == PyFloat(np[2])
      avg == PyFloat(np[3])
      best == PyFloat(np[5])
      worst == PyFloat(np[4])
      stddev == IF Len(np) > 5 THEN PyFloat(np[6]) ELSE Ok(0)
  IN IF sent.ok /\ last.ok /\ avg.ok /\ best.ok /\ worst.ok /\ stddev.ok
     THEN <<MakeHub(hop_num, host, loss, sent.v, last.v, avg.v, best.v,
                    worst.v, stddev.v)>>
     ELSE <<>>

\* the conversions of the numeric tail, <<>> when one of them raises
TailHub(hop_num, host, loss, np) ==
  LET sent == PyInt(np[1])
      last == PyFloat(np[2])
      avg == PyFloat(np[3])
      best == PyFloat(np[4])
      worst == PyFloat(np[5])
      stddev == IF Len(np) > 5 THEN PyFloat(np[6]) ELSE Ok(0)
  IN IF sent.ok /\ last.ok /\ avg.ok /\ best.ok /\ worst.ok /\ stddev.ok
     THEN <<MakeHub(hop_num, host, loss, sent.v, last.v, avg.v, best.v,
                    worst.v, stddev.v)>>
     ELSE <<>>

\* the body of the loop over the lines: the hubs one line appends (one or none)
ParseHopLine(raw) ==
  LET line == Strip(raw)
      parts == SplitWS(line)
      hop == PyInt(Strip(Split(parts[1], ".")[1]))
      host == IF parts[2] # S_Silent THEN parts[2] ELSE S_hop_ \o IntToStr(hop.v)
      loss_idx == FindLossIdx(parts)
      loss == PyFloat(RStripChar(parts[loss_idx], "%"))
      numeric_parts == SubSeq(parts, loss_idx + 1, Len(parts))
  IN IF line = <<>> THEN <<>>
     ELSE IF StartsWith(line, S_Start) \/ StartsWith(line, S_HOST) THEN <<>>
     ELSE IF ~IsHopLine(line) THEN <<>>
     ELSE IF Len(parts) < 7 THEN <<>>
     ELSE IF ~hop.ok THEN <<>>
     ELSE IF loss_idx = 0 THEN <<>>
     ELSE IF ~loss.ok THEN <<>>
     ELSE IF Len(numeric_parts) < 5 THEN <<>>
     ELSE TailHub(hop.v, host, loss.v, numeric_parts)

\* a loop that gives up at the first hop line it cannot convert
RECURSIVE ParseLinesAbort(_, _, _)
ParseLinesAbort(lines, i, hubs) ==
  IF i > Len(lines) THEN hubs
  ELSE IF IsHopLine(Strip(lines[i])) /\ ParseHopLine(lines[i]) = <<>> THEN hubs
  ELSE ParseLinesAbort(lines, i + 1, hubs \o ParseHopLine(lines[i]))

\* the loop over the lines, hubs appended in the order met
RECURSIVE ParseLines(_, _, _)
ParseLines(lines, i, hubs) ==
  IF i > Len(lines) THEN hubs
  ELSE ParseLines(lines, i + 1, hubs \o ParseHopLine(lines[i]))

\* parse_mtr_text_output(text_output)['report']['hubs']
parse_mtr_text_output(text_output) ==
  ParseLines(Split(Strip(text_output), "\n"), 1, <<>>)

\* ------------------------------------------------------------------------
\* parse_mtr_data
\* ------------------------------------------------------------------------
\* dict.get(k, d)
Get(d, k, default) == IF k \in DOMAIN d THEN d[k] ELSE default

\* float(v), in tenths
ToFloat(v) ==
  CASE v.t = "int" -> Ok(10 * v.n)
    [] v.t = "float" -> Ok(v.n)
    [] v.t = "str" -> PyFloat(v.s)
    [] v.t = "null" -> TypeError

\* int(v): a float is truncated toward zero
ToInt(v) ==
  CASE v.t = "int" -> Ok(v.n)
    [] v.t = "float" -> Ok(IF v.n >= 0 THEN v.n \div 10 ELSE 0 - ((0 - v.n) \div 10))
    [] v.t = "str" -> PyInt(v.s)
    [] v.t = "null" -> TypeError

\* the hop number of a hub: a str is converted, 0 when it is no integer
\* (count is an int or a str in every report of the pool)
HopNum(hub) ==
  LET v == Get(hub, "count", IntV(0))
  IN IF v.t = "str" THEN (IF PyInt(v.s).ok THEN PyInt(v.s).v ELSE 0) ELSE v.n

\* the first conversion that raises, in the order of the dict display
FirstRaise(rs, i) ==
  LET bad == {j \in i..Len(rs) : ~rs[j].ok}
  IN IF bad = {} THEN Ok(0)
     ELSE rs[CHOOSE j \in bad : \A k \in bad : j <= k]

\* hop_data of one hub, or the exception a conversion raises
HopData(hub) ==
  LET loss == ToFloat(Get(hub, "Loss", FloatV(0)))
      sent == ToInt(Get(hub, "Snt", IntV(0)))
      last == ToFloat(Get(hub, "Last", FloatV(0)))
      avg == ToFloat(Get(hub, "Avg", FloatV(0)))
      best == ToFloat(Get(hub, "Best", FloatV(0)))
      worst == ToFloat(Get(hub, "Wrst", FloatV(0)))
      stddev == ToFloat(Get(hub, "StDev", FloatV(0)))
      raised == FirstRaise(<<loss, sent, last, avg, best, worst, stddev>>, 1)
  IN IF raised.ok
     THEN Ok([hop |-> HopNum(hub),
              host |-> Get(hub, "host", StrV(S_unknown)),
              loss_percent |-> loss.v, sent |-> sent.v, last_ms |-> last.v,
              avg_ms |-> avg.v, best_ms |-> best.v, worst_ms |-> worst.v,
              stddev_ms |-> stddev.v])
     ELSE raised

RECURSIVE HopsFrom(_, _, _)
HopsFrom(hubs, i, hops) ==
  IF i > Len(hubs) THEN Ok(hops)
  ELSE LET h == HopData(hubs[i])
       IN IF h.ok THEN HopsFrom(hubs, i + 1, Append(hops, h.v)) ELSE h

\* parse_mtr_data(mtr_data): Ok(hops), or the exception that escapes
parse_mtr_data(mtr_data) ==
  IF "report" \notin DOMAIN mtr_data \/ "hubs" \notin DOMAIN mtr_data.report
  THEN Ok(<<>>)
  ELSE HopsFrom(mtr_data.report.hubs, 1, <<>>)

\* ------------------------------------------------------------------------
\* calculate_path_health_summary
\* ------------------------------------------------------------------------
Min(a, b) == IF a < b THEN a ELSE b
Max(a, b) == IF a > b THEN a ELSE b

RECURSIVE SumOf(_, _)
SumOf(xs, i) == IF i > Len(xs) THEN 0 ELSE xs[i] + SumOf(xs, i + 1)

MaxOf(xs) == CHOOSE x \in {xs[i] : i \in 1..Len(xs)} : \A j \in 1..Len(xs) : xs[j] <= x
MinOf(xs) == CHOOSE x \in {xs[i] : i \in 1..Len(xs)} : \A j \in 1..Len(xs) : x <= xs[j]

\* half-to-even rounding of num/den, den > 0
RoundHalfEven(num, den) ==
  LET q == num \div den
      r == num - q * den
  IN IF 2 * r < den THEN q
     ELSE IF 2 * r > den THEN q + 1
     ELSE IF q % 2 = 0 THEN q ELSE q + 1

\* every hop taken as responding
AlwaysResponding(hop) == TRUE

\* a hop that answered at least one probe (loss_percent < 100.0)
Responding(hop) == hop.loss_percent # NaN /\ hop.loss_percent < 1000

\* The penalties and the score are counted in 1/200 of a point, the finest
\* unit the four weights produce from values in tenths.
\* the loss penalty turned into a bonus
LossBonus(loss) == 0 - 40 * loss

\* end_to_end_loss * 2
LossPenalty(loss) == 40 * loss
\* min(end_to_end_jitter * 0.5, 20)
JitterPenalty(jitter) == Min(10 * jitter, 4000)
\* min(end_to_end_rtt * 0.1, 20)
RttPenalty(rtt) == Min(2 * rtt, 4000)
\* min(rtt_variance * 0.05, 10)
VariancePenalty(variance) == Min(variance, 2000)

\* max(0, 100 - loss_penalty - jitter_penalty - rtt_penalty - variance_penalty);
\* with a nan among the figures the difference is nan, which is not greater
\* than 0, and max keeps its first argument
HealthScore(loss, jitter, rtt, variance) ==
  IF NaN \in {loss, jitter, rtt} THEN 0
  ELSE Max(0, 20000 - LossPenalty(loss) - JitterPenalty(jitter) - RttPenalty(rtt)
              - VariancePenalty(variance))

\* the status taken from the score alone
HealthStatusByScore(loss, score) ==
  IF score >= 18000 THEN "EXCELLENT"
  ELSE IF score >= 15000 THEN "GOOD"
  ELSE IF score >= 12000 THEN "FAIR"
  ELSE "POOR"

\* a score of 0 taken as CRITICAL too
HealthStatusCriticalAtZero(loss, score) ==
  IF loss > 500 \/ score = 0 THEN "CRITICAL"
  ELSE IF loss > 100 THEN "POOR"
  ELSE HealthStatusByScore(loss, score)

\* the status: the loss bands first, then the score bands
HealthStatus(loss, score) ==
  IF loss # NaN /\ loss > 500 THEN "CRITICAL"
  ELSE IF loss # NaN /\ loss > 100 THEN "POOR"
  ELSE IF score >= 18000 THEN "EXCELLENT"
  ELSE IF score >= 15000 THEN "GOOD"
  ELSE IF score >= 12000 THEN "FAIR"
  ELSE "POOR"

\* a quotient kept exact: num/den tenths
Ratio(num, den) == [num |-> num, den |-> den]

EmptySummary == [empty |-> TRUE]

\* the last hop, whether it responds or not
LastHop(hops, valid_hops) == hops[Len(hops)]

\* the hop the end-to-end figures are taken from: the last valid hop, the
\* last hop when no hop is valid
ReferenceHop(hops, valid_hops) ==
  IF valid_hops = <<>> THEN hops[Len(hops)] ELSE valid_hops[Len(valid_hops)]

\* no summary, whatever the hops
NoSummary(hops) == EmptySummary

\* calculate_path_health_summary(hops); health_score is round(score, 1) in
\* tenths of a point
calculate_path_health_summary(hops) ==
  LET valid_hops == SelectSeq(hops, Responding)
      ref == ReferenceHop(hops, valid_hops)
      jitters == [i \in 1..Len(valid_hops) |-> valid_hops[i].stddev_ms]
      rtts == [i \in 1..Len(valid_hops) |-> valid_hops[i].avg_ms]
      losses == [i \in 1..Len(valid_hops) |-> valid_hops[i].loss_percent]
      rtt_variance == IF Len(rtts) > 1 THEN MaxOf(rtts) - MinOf(rtts) ELSE 0
      score == HealthScore(ref.loss_percent, ref.stddev_ms, ref.avg_ms, rtt_variance)
  IN IF hops = <<>> THEN EmptySummary
     ELSE [empty |-> FALSE,
           hop_count |-> Len(hops),
           valid_hops |-> Len(valid_hops),
           avg_loss_percent |-> IF valid_hops # <<>>
                                THEN Ratio(SumOf(losses, 1), Len(valid_hops))
                                ELSE Ratio(0, 1),
           end_to_end_rtt_ms |-> ref.avg_ms,
           end_to_end_jitter_ms |-> ref.stddev_ms,
           end_to_end_loss_percent |-> ref.loss_percent,
           avg_jitter_ms |-> IF valid_hops # <<>>
                             THEN Ratio(SumOf(jitters, 1), Len(valid_hops))
                             ELSE Ratio(ref.stddev_ms, 1),
           max_jitter_ms |-> IF valid_hops # <<>> THEN MaxOf(jitters)
                             ELSE ref.stddev_ms,
           rtt_variance_ms |-> rtt_variance,
           health_score |-> RoundHalfEven(score, 20),
           health_status |-> HealthStatus(ref.loss_percent, score)]

\* ------------------------------------------------------------------------
\* clean_hostname, build_labels, format_float
\* ------------------------------------------------------------------------
Letter ==
  {"a", "b", "c", "d", "e", "f", "g", "h", "i", "j", "k", "l", "m", "n", "o",
   "p", "q", "r", "s", "t", "u", "v", "w", "x", "y", "z",
   "A", "B", "C", "D", "E", "F", "G", "H", "I", "J", "K", "L", "M", "N", "O",
   "P", "Q", "R", "S", "T", "U", "V", "W", "X", "Y", "Z"}

\* c.isalnum() or c in '-_.:/'
SafeChar(c) == c \in Letter \cup Digit \cup {"-", "_", ".", ":", "/"}

\* every character kept
KeepAllChars(s) == s

\* ''.join(c for c in s if c.isalnum() or c in '-_.:/')
FilterChars(s) == SelectSeq(s, SafeChar)

\* s.replace(c, d) for a single character c
ReplaceChar(s, c, d) == [i \in 1..Len(s) |-> IF s[i] = c THEN d ELSE s[i]]

\* s.replace(c, '') for a single character c
RemoveChar(s, c) == SelectSeq(s, LAMBDA x : x # c)

\* s.replace(pat, rep): every occurrence, left to right, not overlapping
RECURSIVE ReplaceAll(_, _, _)
ReplaceAll(s, pat, rep) ==
  IF Len(s) < Len(pat) THEN s
  ELSE IF SubSeq(s, 1, Len(pat)) = pat
       THEN rep \o ReplaceAll(SubSeq(s, Len(pat) + 1, Len(s)), pat, rep)
       ELSE <<Head(s)>> \o ReplaceAll(Tail(s), pat, rep)

S__silent == <<"_","s","i","l","e","n","t">>

\* .replace(' ', '_').replace('"', '').replace("'", '').replace('\n', '')
\* .replace('\t', ''), then only the safe characters are kept
CleanValue(s) ==
  FilterChars(
    RemoveChar(RemoveChar(RemoveChar(RemoveChar(ReplaceChar(s, " ", "_"),
      "\""), "'"), "\n"), "\t"))

\* clean_hostname(hostname, hop_num) of a str
clean_hostname(hostname, hop_num) ==
  LET named == ReplaceAll(hostname, S_Silent, S_hop_ \o IntToStr(hop_num) \o S__silent)
      clean_host == CleanValue(named)
  IN IF clean_host = <<>> THEN S_hop_ \o IntToStr(hop_num) ELSE clean_host

\* a dict is the sequence of its <<key, value>> items in insertion order
DictSet(d, k, v) ==
  IF \E i \in 1..Len(d) : d[i][1] = k
  THEN [i \in 1..Len(d) |-> IF d[i][1] = k THEN <<k, v>> ELSE d[i]]
  ELSE Append(d, <<k, v>>)

RECURSIVE DictUpdate(_, _, _)
DictUpdate(d, items, i) ==
  IF i > Len(items) THEN d
  ELSE DictUpdate(DictSet(d, items[i][1], items[i][2]), items, i + 1)


\* build_labels(extra_labels) of the exporter e
build_labels(e, extra_labels) ==
  LET labels == DictUpdate(
                  DictUpdate(e.custom_labels,
                             <<<<<<"t","a","r","g","e","t">>, e.target>>, <<<<"p","r","o","b","e">>, e.probe_name>>>>, 1),
                  extra_labels, 1)
      label_parts == [i \in 1..Len(labels) |->
                        labels[i][1] \o <<"=", "\"">> \o CleanValue(labels[i][2])
                          \o <<"\"">>]
  IN Join(label_parts, <<",">>)

RECURSIVE Pow10(_)
Pow10(p) == IF p = 0 THEN 1 ELSE 10 * Pow10(p - 1)

RECURSIVE ZeroPad(_, _)
ZeroPad(s, width) == IF Len(s) >= width THEN s ELSE ZeroPad(<<"0">> \o s, width)

\* f"{num/den:.{precision}f}", den > 0
FormatRatio(num, den, precision) ==
  LET mag == IF num < 0 THEN 0 - num ELSE num
      q == RoundHalfEven(mag * Pow10(precision), den)
  IN (IF num < 0 THEN <<"-">> ELSE <<>>)
       \o NatToStr(q \div Pow10(precision)) \o <<".">>
       \o ZeroPad(NatToStr(q % Pow10(precision)), precision)

\* format_float(value, precision) of a value in tenths; nan prints as 'nan'
format_float(value, precision) ==
  IF value = NaN THEN <<"n", "a", "n">> ELSE FormatRatio(value, 10, precision)

\* ------------------------------------------------------------------------
\* generate_prometheus_metrics
\* ------------------------------------------------------------------------

\* a sample line without the space before the value
MetricLineNoSpace(name, labels, value) == name \o <<"{">> \o labels \o <<"}">> \o value

\* f'name{{{labels}}} {value}'
MetricLine(name, labels, value) == name \o <<"{">> \o labels \o <<"}", " ">> \o value

\* the label string of one hop's series
HopLabels(e, hop, responding) ==
  build_labels(e, <<<<<<"h","o","p">>, IntToStr(hop.hop)>>,
                    <<<<"h","o","s","t">>, clean_hostname(hop.host.s, hop.hop)>>,
                    <<<<"r","e","s","p","o","n","d","i","n","g">>, responding>>>>)

\* one family over the responding hops
HopSeries(e, hs, name, values) ==
  [i \in 1..Len(hs) |-> MetricLine(name, HopLabels(e, hs[i], <<"t","r","u","e">>), values[i])]

\* no hop taken as silent
NeverSilent(hop) == FALSE

\* hop['loss_percent'] >= 100.0
Silent(hop) == hop.loss_percent # NaN /\ hop.loss_percent >= 1000

\* a rendering that carries the exporter's timestamp
generate_with_timestamp(e, hops) ==
  Ok(<<"m","t","r","_","t","i","m","e","s","t","a","m","p"," ">> \o IntToStr(e.timestamp))

\* generate_prometheus_metrics(hops) of the exporter e: Ok(text), or the
\* AttributeError of clean_hostname on a host that is no str
generate_prometheus_metrics(e, hops) ==
  LET base_labels == build_labels(e, <<>>)
      summary == calculate_path_health_summary(hops)
      metadata_labels == base_labels \o <<",">> \o <<"p","o","r","t">> \o <<"=", "\"">>
                           \o IntToStr(e.port) \o <<"\"", ",">> \o <<"p","r","o","t","o","c","o","l">>
                           \o <<"=", "\"">> \o e.protocol \o <<"\"">>
      responding_hops == SelectSeq(hops, Responding)
      silent_hops == SelectSeq(hops, Silent)
      last == hops[Len(hops)]
      head == <<MetricLine(<<"m","t","r","_","i","n","f","o">>, metadata_labels, <<"1">>)>>
      path == IF summary.empty THEN <<>>
              ELSE <<MetricLine(<<"m","t","r","_","p","a","t","h","_","h","e","a","l","t","h","_","s","c","o","r","e">>, base_labels,
                                format_float(summary.health_score, 1)),
                     MetricLine(<<"m","t","r","_","p","a","t","h","_","r","t","t","_","v","a","r","i","a","n","c","e","_","m","s">>, base_labels,
                                format_float(summary.rtt_variance_ms, 2)),
                     MetricLine(<<"m","t","r","_","p","a","t","h","_","a","v","g","_","j","i","t","t","e","r","_","m","s">>, base_labels,
                                FormatRatio(summary.avg_jitter_ms.num,
                                            10 * summary.avg_jitter_ms.den, 2)),
                     MetricLine(<<"m","t","r","_","p","a","t","h","_","m","a","x","_","j","i","t","t","e","r","_","m","s">>, base_labels,
                                format_float(summary.max_jitter_ms, 2)),
                     MetricLine(<<"m","t","r","_","p","a","t","h","_","e","n","d","_","t","o","_","e","n","d","_","l","o","s","s","_","p","e","r","c","e","n","t">>, base_labels,
                                format_float(summary.end_to_end_loss_percent, 1))>>
      perhop == HopSeries(e, responding_hops, <<"m","t","r","_","l","o","s","s","_","p","e","r","c","e","n","t">>,
                          [i \in 1..Len(responding_hops) |-> format_float(responding_hops[i].loss_percent, 1)])
                \o HopSeries(e, responding_hops, <<"m","t","r","_","p","a","c","k","e","t","s","_","s","e","n","t">>,
                             [i \in 1..Len(responding_hops) |-> IntToStr(responding_hops[i].sent)])
                \o HopSeries(e, responding_hops, <<"m","t","r","_","l","a","s","t","_","r","t","t","_","m","s">>,
                             [i \in 1..Len(responding_hops) |-> format_float(responding_hops[i].last_ms, 2)])
                \o HopSeries(e, responding_hops, <<"m","t","r","_","a","v","g","_","r","t","t","_","m","s">>,
                             [i \in 1..Len(responding_hops) |-> format_float(responding_hops[i].avg_ms, 2)])
                \o HopSeries(e, responding_hops, <<"m","t","r","_","b","e","s","t","_","r","t","t","_","m","s">>,
                             [i \in 1..Len(responding_hops) |-> format_float(responding_hops[i].best_ms, 2)])
                \o HopSeries(e, responding_hops, <<"m","t","r","_","w","o","r","s","t","_","r","t","t","_","m","s">>,
                             [i \in 1..Len(responding_hops) |-> format_float(responding_hops[i].worst_ms, 2)])
                \o HopSeries(e, responding_hops, <<"m","t","r","_","j","i","t","t","e","r","_","m","s">>,
                             [i \in 1..Len(responding_hops) |-> format_float(responding_hops[i].stddev_ms, 2)])
      counts == <<MetricLine(<<"m","t","r","_","s","i","l","e","n","t","_","h","o","p","s","_","c","o","u","n","t">>, base_labels,
                             IntToStr(Len(silent_hops))),
                  MetricLine(<<"m","t","r","_","h","o","p","_","c","o","u","n","t">>, base_labels, IntToStr(Len(hops))),
                  MetricLine(<<"m","t","r","_","r","e","s","p","o","n","d","i","n","g","_","h","o","p","_","c","o","u","n","t">>, base_labels,
                             IntToStr(Len(responding_hops)))>>
      ends == IF hops = <<>> THEN <<>>
              ELSE <<MetricLine(<<"m","t","r","_","e","n","d","_","t","o","_","e","n","d","_","l","o","s","s","_","p","e","r","c","e","n","t">>, base_labels,
                       format_float(IF summary.empty THEN last.loss_percent
                                    ELSE summary.end_to_end_loss_percent, 1)),
                     MetricLine(<<"m","t","r","_","e","n","d","_","t","o","_","e","n","d","_","a","v","g","_","r","t","t","_","m","s">>, base_labels,
                       format_float(IF summary.empty THEN last.avg_ms
                                    ELSE summary.end_to_end_rtt_ms, 2)),
                     MetricLine(<<"m","t","r","_","e","n","d","_","t","o","_","e","n","d","_","j","i","t","t","e","r","_","m","s">>, base_labels,
                       format_float(IF summary.empty THEN last.stddev_ms
                                    ELSE summary.end_to_end_jitter_ms, 2))>>
      info == [i \in 1..Len(hops) |->
                 MetricLine(<<"m","t","r","_","h","o","p","_","i","n","f","o">>,
                            HopLabels(e, hops[i],
                                      IF Responding(hops[i]) THEN <<"t","r","u","e">> ELSE <<"f","a","l","s","e">>),
                            <<"1">>)]
  IN IF \E i \in 1..Len(hops) : hops[i].host.t # "str"
     THEN AttributeError
     ELSE Ok(Join(head \o path \o perhop \o counts \o ends \o info, <<"\n">>))

\* ------------------------------------------------------------------------
\* validate_prometheus_metrics
\* ------------------------------------------------------------------------
\* the text after the last ' ' of a line that holds one: rsplit(' ', 1)[1]
LastField(line) ==
  SubSeq(line, SetMax({i \in 1..Len(line) : line[i] = " "}) + 1, Len(line))

\* one line passes: not blank, holds a space, its last field is a number
ValidLine(raw) ==
  LET line == Strip(raw)
  IN /\ line # <<>>
     /\ Contains(line, <<" ">>)
     /\ PyFloat(LastField(line)).ok

\* a validator that accepts every text
validate_nothing(metrics_content) == TRUE

\* validate_prometheus_metrics(metrics_content)
validate_prometheus_metrics(metrics_content) ==
  \A lines \in {Split(Strip(metrics_content), "\n")} :
    \A i \in 1..Len(lines) : ValidLine(lines[i])

\* '\n'.join(line for line in text.split('\n') if line.strip())
DropBlankLines(text) ==
  Join(SelectSeq(Split(text, "\n"), LAMBDA line : Strip(line) # <<>>), <<"\n">>)

\* ------------------------------------------------------------------------
\* the reports the model feeds to the decoders
\* ------------------------------------------------------------------------
\* the longest textual report, in lines
MaxLines == 3

SeqsUpTo(S, n) == UNION {[1..k -> S] : k \in 0..n}

\* the hop line of the round-trip scenario: "  1.|-- _gateway   0.0%    10  1.6  1.6  1.6  1.8  0.1"
L_gateway ==
  <<" "," ","1",".","|","-","-"," ","_","g","a","t","e","w","a","y"," "," "," ","0",".","0","%"," "," "," "," ","1","0"," "," ","1",".","6"," "," ","1",".","6"," "," ","1",".","6"," "," ","1",".","8"," "," ","0",".","1">>

\* header: "HOST: x|-- Loss% Snt Last Avg Best Wrst StDev"
H_host ==
  <<"H","O","S","T",":"," ","x","|","-","-"," ","L","o","s","s","%"," ","S","n","t"," ","L","a","s","t"," ","A","v","g"," ","B","e","s","t"," ","W","r","s","t"," ","S","t","D","e","v">>

\* well-formed hop lines
GoodLines ==
  {L_gateway,
   \* a hop that never answers: "  2.|-- ???  100.0%  10  0.0  0.0  0.0  0.0  0.0"
   <<" "," ","2",".","|","-","-"," ","?","?","?"," "," ","1","0","0",".","0","%"," "," ","1","0"," "," ","0",".","0"," "," ","0",".","0"," "," ","0",".","0"," "," ","0",".","0"," "," ","0",".","0">>,
   \* no jitter column: "  3.|-- h  5.0%  10  30.0  250.0  1.0  300.0"
   <<" "," ","3",".","|","-","-"," ","h"," "," ","5",".","0","%"," "," ","1","0"," "," ","3","0",".","0"," "," ","2","5","0",".","0"," "," ","1",".","0"," "," ","3","0","0",".","0">>,
   \* a negative loss figure: "  4.|-- h  -5.0%  10  1.0  1.0  1.0  1.0  0.0"
   <<" "," ","4",".","|","-","-"," ","h"," "," ","-","5",".","0","%"," "," ","1","0"," "," ","1",".","0"," "," ","1",".","0"," "," ","1",".","0"," "," ","1",".","0"," "," ","0",".","0">>}

\* lines the decoder drops: malformed hop lines, the header, the empty line
BadLines ==
  {\* fewer than 7 tokens: "  1.|-- h 0.0% 10 1.0"
   <<" "," ","1",".","|","-","-"," ","h"," ","0",".","0","%"," ","1","0"," ","1",".","0">>,
   \* hop index is no integer: "  x.|-- h 0.0% 10 1.0 1.0 1.0 1.0 0.1"
   <<" "," ","x",".","|","-","-"," ","h"," ","0",".","0","%"," ","1","0"," ","1",".","0"," ","1",".","0"," ","1",".","0"," ","1",".","0"," ","0",".","1">>,
   \* no token ends in %: "  1.|-- h 0.0 10 1.0 1.0 1.0 1.0 0.1"
   <<" "," ","1",".","|","-","-"," ","h"," ","0",".","0"," ","1","0"," ","1",".","0"," ","1",".","0"," ","1",".","0"," ","1",".","0"," ","0",".","1">>,
   \* four values after the loss token: "  1.|-- h a b 0.0% 10 1.0 1.0 1.0"
   <<" "," ","1",".","|","-","-"," ","h"," ","a"," ","b"," ","0",".","0","%"," ","1","0"," ","1",".","0"," ","1",".","0"," ","1",".","0">>,
   \* a tail value is no number: "  1.|-- h 0.0% 10 1.0 x 1.0 1.0 0.1"
   <<" "," ","1",".","|","-","-"," ","h"," ","0",".","0","%"," ","1","0"," ","1",".","0"," ","x"," ","1",".","0"," ","1",".","0"," ","0",".","1">>,
   \* the loss token has no numeric prefix: "  1.|-- h x% 10 1.0 1.0 1.0 1.0 0.1"
   <<" "," ","1",".","|","-","-"," ","h"," ","x","%"," ","1","0"," ","1",".","0"," ","1",".","0"," ","1",".","0"," ","1",".","0"," ","0",".","1">>,
   \* the host token ends in %: "  1.|-- 50% 0.0% 10 1.0 1.0 1.0 1.0 0.1"
   <<" "," ","1",".","|","-","-"," ","5","0","%"," ","0",".","0","%"," ","1","0"," ","1",".","0"," ","1",".","0"," ","1",".","0"," ","1",".","0"," ","0",".","1">>,
   H_host,
   <<>>}
\* every report of at most MaxLines lines of the pool, and the report of
\* one hop whose loss figure is no number: "  1.|-- h nan% 10 1.0 1.0 1.0 1.0 0.1"
Texts ==
  {Join(ls, <<"\n">>) : ls \in SeqsUpTo(GoodLines \cup BadLines, MaxLines)} \cup
  {<<" "," ","1",".","|","-","-"," ","h"," ","n","a","n","%"," ","1","0"," ","1",".","0"," ","1",".","0"," ","1",".","0"," ","1",".","0"," ","0",".","1">>}

\* the longest probe list of a configuration file
MaxProbes == 2

\* probe configurations: the second one has a label key that holds a line
\* break, the third one has no target
P_a == [name |-> <<"a">>, target |-> <<"t">>, port |-> 443, protocol |-> <<"i","c","m","p">>,
        labels |-> << <<<<"s","v","c">>, <<"d", " ", "n">>>> >>]
P_b == [name |-> <<"b">>, target |-> <<"u">>, port |-> 53, protocol |-> <<"U","D","P">>,
        labels |-> << <<<<"k", "\n", "x">>, <<"v">>>> >>]
P_notarget == [name |-> <<"c">>, target |-> <<>>, port |-> 443, protocol |-> <<"i","c","m","p">>,
               labels |-> <<>>]

\* a probe whose label key holds an empty line: every line it renders breaks
\* into 'metric{k 1', an empty line and 'x="v",...} value'
P_blank == [name |-> <<"e">>, target |-> <<"w">>, port |-> 443, protocol |-> <<"i","c","m","p">>,
            labels |-> << <<<<"k", " ", "1", "\n", "\n", "x">>, <<"v">>>> >>]

\* a probe of a configuration file whose protocol holds a space
P_c == [name |-> <<"c">>, target |-> <<"t">>, port |-> 443, protocol |-> <<"T","C"," ","p">>,
        labels |-> << <<<<"s","v","c">>, <<"d", " ", "n">>>> >>]

\* no value yet
NoData == [none |-> TRUE]
\* the process has not ended
Running == [code |-> 0 - 1, reason |-> "running"]

\* what a run of mtr prints.  The bytes of a JSON document are carried as the
\* value they denote (kind "json"); any other output is carried as its text.
JsonPayload(doc) == [kind |-> "json", doc |-> doc, text |-> <<>>]
TextPayload(text) == [kind |-> "text", doc |-> NoData, text |-> text]

\* a responding hop and a silent one
D_ok ==
  [report |-> [hubs |->
    <<[count |-> IntV(1), host |-> StrV(<<"h">>), Loss |-> FloatV(0),
       Snt |-> IntV(10), Last |-> FloatV(16), Avg |-> FloatV(16),
       Best |-> FloatV(16), Wrst |-> FloatV(18), StDev |-> FloatV(1)],
      [count |-> IntV(2), host |-> StrV(S_Silent), Loss |-> FloatV(1000),
       Snt |-> IntV(10), Last |-> FloatV(0), Avg |-> FloatV(0),
       Best |-> FloatV(0), Wrst |-> FloatV(0), StDev |-> FloatV(0)]>>]]
D_empty == [report |-> [hubs |-> <<>>]]
D_noreport == [version |-> StrV(<<"1">>)]
\* numbers given as strings, one of them no number
D_badloss ==
  [report |-> [hubs |->
    <<[count |-> StrV(<<"1">>), host |-> StrV(<<"h">>),
       Loss |-> StrV(<<"x">>), Snt |-> StrV(<<"1", "0">>)]>>]]
\* a host that is null
D_nullhost ==
  [report |-> [hubs |->
    <<[count |-> IntV(1), host |-> NullV, Loss |-> FloatV(0),
       Snt |-> IntV(10), Avg |-> FloatV(16)]>>]]

T_one == H_host \o <<"\n">> \o L_gateway
T_truncated == <<"{">>

\* standard output of 'mtr -j' and of 'mtr --report'
JsonStdouts == {JsonPayload(D_ok), JsonPayload(D_empty), JsonPayload(D_noreport),
                JsonPayload(D_badloss), JsonPayload(D_nullhost),
                TextPayload(T_one), TextPayload(T_truncated)}
TextStdouts == {TextPayload(T_one), TextPayload(H_host)}

\* the destination before the run: absent, or the file of an earlier run
NoFile == [exists |-> FALSE, content |-> <<>>, mode |-> "none"]
OldFile == [exists |-> TRUE, content |-> <<"o", "l", "d", " ", "1", "\n">>,
            mode |-> "0644"]

\* ------------------------------------------------------------------------
\* the decisions of run_mtr, export_to_file and run_config_mode
\* ------------------------------------------------------------------------
Upper == <<"A", "B", "C", "D", "E", "F", "G", "H", "I", "J", "K", "L", "M",
           "N", "O", "P", "Q", "R", "S", "T", "U", "V", "W", "X", "Y", "Z">>
LowerOf == <<"a", "b", "c", "d", "e", "f", "g", "h", "i", "j", "k", "l", "m",
             "n", "o", "p", "q", "r", "s", "t", "u", "v", "w", "x", "y", "z">>

\* s.lower()
Lower(s) ==
  [i \in 1..Len(s) |->
     IF \E k \in 1..Len(Upper) : Upper[k] = s[i]
     THEN LowerOf[CHOOSE k \in 1..Len(Upper) : Upper[k] = s[i]]
     ELSE s[i]]

\* readings of the clock, in milliseconds: int(time.time() * 1000)
Timestamps == {1, 2}

\* MTRPrometheusExporter(target, port, count, probe_name, custom_labels, protocol),
\* constructed when the clock reads timestamp
Exporter(p, timestamp) ==
  [target |-> p.target, port |-> p.port, probe_name |-> p.name,
   custom_labels |-> p.labels, protocol |-> Lower(p.protocol),
   timestamp |-> timestamp]

\* a finished subprocess, and one that raised TimeoutExpired / FileNotFoundError
Completed(rc, stdout) == [raised |-> FALSE, returncode |-> rc, stdout |-> stdout]
NotCompleted == [raised |-> TRUE, returncode |-> 0 - 1, stdout |-> TextPayload(<<>>)]

JsonResults ==
  {NotCompleted, Completed(1, TextPayload(<<>>))} \cup {Completed(0, s) : s \in JsonStdouts}
TextResults ==
  {NotCompleted, Completed(1, TextPayload(<<>>))} \cup {Completed(0, s) : s \in TextStdouts}

\* json.loads(result.stdout): the document, or JSONDecodeError
JsonLoads(stdout) == IF stdout.kind = "json" THEN Ok(stdout.doc) ELSE ValueError

\* a JSON decode error that ends the run
AfterJsonFatal(res) ==
  IF res.raised THEN "exit"
  ELSE IF res.returncode = 0
       THEN IF JsonLoads(res.stdout).ok THEN "return" ELSE "exit"
       ELSE "run_text"

\* where run_mtr goes after the JSON command: out of the process, back to
\* the caller with the document, or on to the text command
AfterJson(res) ==
  IF res.raised THEN "exit"
  ELSE IF res.returncode = 0
       THEN IF JsonLoads(res.stdout).ok THEN "return" ELSE "run_text"
       ELSE "run_text"

\* where run_mtr goes after the text command
AfterText(res) ==
  IF res.raised THEN "exit"
  ELSE IF res.returncode # 0 THEN "exit" ELSE "text_decode"

\* the text decode reading the output of the JSON command again
TextDecodeInputSameBytes(json_stdout, text_stdout) == json_stdout.text

\* the argument of parse_mtr_text_output: the standard output of the text
\* command (result is rebound by the second subprocess.run)
TextDecodeInput(json_stdout, text_stdout) == text_stdout.text

\* every probe is rendered, with or without hops
HasHopsAlways(hs) == TRUE

\* every run is reported to have no hops
NoHopDataAlways(hs) == TRUE

\* 'if not hops:' of export_to_file
NoHopData(hs) == hs = <<>>

\* 'if hops:' of run_config_mode
HasHops(hs) == hs # <<>>

\* 'if not all_metrics:' of run_config_mode
NoResults(ms) == ms = <<>>

\* the content as it is given
ContentAsGiven(content) == content

\* what atomic_write_metrics puts into the temporary file
FileContent(content) ==
  IF EndsWith(content, <<"\n">>) THEN content ELSE content \o <<"\n">>

\* the files after a write that goes into the destination itself
WriteInPlace(d, t, data) ==
  [dest |-> [exists |-> TRUE, content |-> data, mode |-> "0600"], temp |-> t]

\* the files after f.write of data on the descriptor of the temporary file
WriteTo(d, t, data) == [dest |-> d, temp |-> [t EXCEPT !.content = data]]

\* the entry of a probe in the history
NewEntry == [status |-> "pending", nhops |-> 0]

\* the trace of a run_mtr call that has not started
NewTrace ==
  [json |-> "not_run", json_stdout |-> TextPayload(<<>>),
   text |-> "not_run", text_stdout |-> TextPayload(<<>>), text_input |-> <<>>]

Ended(code, reason) == [code |-> code, reason |-> reason]

\* ------------------------------------------------------------------------
\* two calls of atomic_write_metrics on one destination at the same time
\* ------------------------------------------------------------------------
\* the names mkstemp can give to a temporary file of the directory
TempNames == {"tmp1.tmp", "tmp2.tmp"}

\* a name given whether or not a file of that name exists
AnyName(tmp) == TempNames

\* the names mkstemp may return: it creates the file exclusively, so the
\* name is one no existing file has
FreshNames(tmp) == {n \in TempNames : ~tmp[n].exists}

\* the content argument of the first and of the second call
Contents == <<<<"a", " ", "1">>, <<"b", " ", "2">>>>

\* no concurrent call is running
NoWriters ==
  [pc |-> <<"idle", "idle">>, path |-> <<"none", "none">>,
   tmp |-> [n \in TempNames |-> NoFile]]

\* ------------------------------------------------------------------------
\* state
\* ------------------------------------------------------------------------
VARIABLES
  pc,            \* the statement the run is at
  mode,          \* "single" (export_to_file) or "config" (run_config_mode)
  probes,        \* the probes of the run, in order
  idx,           \* the probe the loop is at
  result,        \* the last subprocess result of run_mtr
  mtr_data,      \* the decoded report (run_mtr's result)
  hops,          \* parse_mtr_data's result
  summary,       \* calculate_path_health_summary's result
  all_metrics,   \* the rendered text of each probe that yielded hops
  clean_metrics, \* the text handed to the validator and the writer
  exit,          \* how the process ended
  dest,          \* the file at the destination path
  temp,          \* the temporary file of the writer
  w_pc,          \* the statement atomic_write_metrics is at
  w_content,     \* the content argument of atomic_write_metrics
  w_fail,        \* the step of atomic_write_metrics that raised
  log,           \* per probe: its outcome and the number of its hops (history)
  trace,         \* what run_mtr ran and decoded for the probe at hand (history)
  validated,     \* the text validate_prometheus_metrics accepted (history)
  dest0,         \* the destination before the run (history)
  clean_host_display,  \* clean_hostname's result for the hop shown
  writers        \* concurrent calls of atomic_write_metrics on one destination

vars == <<pc, mode, probes, idx, result, mtr_data, hops, summary,
          all_metrics, clean_metrics, exit, dest, temp, w_pc, w_content, w_fail,
          log, trace, validated, dest0, clean_host_display, writers>>

decodeVars == <<result, mtr_data, hops, summary>>
driverVars == <<mode, probes, clean_host_display, writers, idx, all_metrics, clean_metrics, exit, log, trace, validated>>
fileVars == <<dest, temp, dest0>>
writerVars == <<w_pc, w_content, w_fail>>

\* ------------------------------------------------------------------------
\* the decode and analysis of one textual report
\* ------------------------------------------------------------------------
InitParse ==
  /\ pc = "text_decode"
  /\ mode = "parse"
  /\ probes = <<P_a>>
  /\ idx = 1
  /\ result \in {Completed(0, TextPayload(t)) : t \in Texts}
  /\ mtr_data = NoData
  /\ hops = <<>>
  /\ summary = EmptySummary
  /\ all_metrics = <<>> /\ clean_metrics = <<>>
  /\ exit = Running
  /\ dest = NoFile /\ temp = NoFile /\ dest0 = NoFile
  /\ w_pc = "idle" /\ w_content = <<>> /\ w_fail = "none"
  /\ log = <<[NewEntry EXCEPT !.status = "started"]>>
  /\ trace = [NewTrace EXCEPT !.json = "decode_error",
                              !.json_stdout = TextPayload(T_truncated),
                              !.text = "started", !.text_stdout = result.stdout]
  /\ validated = [none |-> TRUE, text |-> <<>>]
  /\ clean_host_display = <<>>
  /\ writers = NoWriters

\* run_mtr: return self.parse_mtr_text_output(result.stdout)
DecodeText ==
  /\ pc = "text_decode"
  /\ \E text_output \in {TextDecodeInput(trace.json_stdout, result.stdout)} :
       /\ mtr_data' = [report |-> [hubs |-> parse_mtr_text_output(text_output)]]
       /\ trace' = [trace EXCEPT !.text = "decoded", !.text_input = text_output]
  /\ result' = NoData
  /\ pc' = "parse_data"
  /\ UNCHANGED <<hops, summary, mode, probes, clean_host_display, writers, idx, all_metrics,
                 clean_metrics, exit, log, validated, fileVars, writerVars>>

\* hops = parse_mtr_data(mtr_data)
ParseData ==
  /\ pc = "parse_data"
  /\ mode = "parse"
  /\ hops' = parse_mtr_data(mtr_data).v
  /\ pc' = "analyze"
  /\ UNCHANGED <<result, mtr_data, summary>>
  /\ UNCHANGED <<driverVars, fileVars, writerVars>>

\* summary = calculate_path_health_summary(hops)
Analyze ==
  /\ pc = "analyze"
  /\ summary' = calculate_path_health_summary(hops)
  /\ pc' = "analyzed"
  /\ UNCHANGED <<result, mtr_data, hops>>
  /\ UNCHANGED <<driverVars, fileVars, writerVars>>

NextParse == DecodeText \/ ParseData \/ Analyze

SpecParse == InitParse /\ [][NextParse]_vars
\* ------------------------------------------------------------------------
\* calculate_path_health_summary over hop sequences
\* ------------------------------------------------------------------------
\* the longest hop sequence handed to the analyzer
MaxHops == 2

\* loss figures in tenths of a percent: 0, 5, 10, 11, 50, 51 and 100 percent
LossPool == {0, 50, 100, 110, 500, 510, 1000}

\* <<avg_ms, stddev_ms>> in tenths of a millisecond
TimingPool == {<<0, 0>>, <<4, 0>>, <<4, 400>>, <<2000, 400>>}

\* hop_data as parse_mtr_data builds it
HopOf(loss, avg, stddev) ==
  [hop |-> 1, host |-> StrV(<<"h">>), loss_percent |-> loss, sent |-> 10,
   last_ms |-> avg, avg_ms |-> avg, best_ms |-> avg, worst_ms |-> avg,
   stddev_ms |-> stddev]

\* hop sequences, numbered from 1
HopSeqs ==
  {[i \in 1..Len(s) |-> [s[i] EXCEPT !.hop = i]] : s \in SeqsUpTo({HopOf(l, t[1], t[2]) : l \in LossPool, t \in TimingPool},
                   MaxHops)}

InitAnalyze ==
  /\ pc = "analyze"
  /\ mode = "analyze"
  /\ probes = <<P_a>>
  /\ idx = 1
  /\ result = NoData
  /\ mtr_data = NoData
  /\ hops \in HopSeqs
  /\ summary = EmptySummary
  /\ all_metrics = <<>> /\ clean_metrics = <<>>
  /\ exit = Running
  /\ dest = NoFile /\ temp = NoFile /\ dest0 = NoFile
  /\ w_pc = "idle" /\ w_content = <<>> /\ w_fail = "none"
  /\ log = <<[NewEntry EXCEPT !.status = "started"]>>
  /\ trace = NewTrace
  /\ validated = [none |-> TRUE, text |-> <<>>]
  /\ clean_host_display = <<>>
  /\ writers = NoWriters

SpecAnalyze == InitAnalyze /\ [][Analyze]_vars

\* ------------------------------------------------------------------------
\* clean_hostname over host names
\* ------------------------------------------------------------------------
\* the longest host name, in characters
MaxHostLen == 4

\* a letter, a safe mark, the '?' of the silent sentinel, a space, a quote,
\* a line feed and a character outside the safe set
HostChars == {"a", ".", "?", " ", "\"", "\n", "!"}

\* a host name of at most MaxHostLen characters at a hop number of one or
\* of two digits
InitClean ==
  /\ pc = "clean"
  /\ mode = "clean"
  /\ probes = <<P_a>>
  /\ idx = 1
  /\ result = NoData
  /\ mtr_data = NoData
  /\ hops \in {<<[HopOf(0, 10, 0) EXCEPT !.host = StrV(x), !.hop = n]>> :
                 x \in SeqsUpTo(HostChars, MaxHostLen), n \in {2, 10}}
  /\ summary = EmptySummary
  /\ all_metrics = <<>> /\ clean_metrics = <<>>
  /\ exit = Running
  /\ dest = NoFile /\ temp = NoFile /\ dest0 = NoFile
  /\ w_pc = "idle" /\ w_content = <<>> /\ w_fail = "none"
  /\ log = <<[NewEntry EXCEPT !.status = "started"]>>
  /\ trace = NewTrace
  /\ validated = [none |-> TRUE, text |-> <<>>]
  /\ clean_host_display = <<>>
  /\ writers = NoWriters

\* clean_host_display = self.clean_hostname(hop['host'], hop['hop'])
CleanHost ==
  /\ pc = "clean"
  /\ clean_host_display' = clean_hostname(hops[idx].host.s, hops[idx].hop)
  /\ pc' = "cleaned"
  /\ UNCHANGED <<decodeVars, mode, probes, writers, idx, all_metrics, clean_metrics, exit,
                 log, trace, validated, fileVars, writerVars>>

SpecClean == InitClean /\ [][CleanHost]_vars


\* ------------------------------------------------------------------------
\* atomic_write_metrics, one action per system call; each call may fail
\* with an OSError.  The unlink of the handler removes the temporary file
\* when there is one.
\* ------------------------------------------------------------------------

\* tempfile.mkstemp(suffix='.tmp', dir=...), before the try block
Mkstemp ==
  /\ w_pc = "mkstemp"
  /\ \E ok \in BOOLEAN :
       IF ok
       THEN /\ temp' = [exists |-> TRUE, content |-> <<>>, mode |-> "0600"]
            /\ w_pc' = "write"
            /\ w_fail' = w_fail
       ELSE /\ temp' = temp
            /\ w_pc' = "raised"
            /\ w_fail' = "mkstemp"
  /\ UNCHANGED <<pc, decodeVars, driverVars, dest, dest0, w_content>>

\* f.write(content), and f.write('\n') when content does not end with one;
\* a failing write leaves a part of the data behind
WriteTemp ==
  /\ w_pc = "write"
  /\ \E ok \in BOOLEAN :
       \E n \in IF ok THEN {Len(FileContent(w_content))}
                ELSE {0, Len(FileContent(w_content)) \div 2} :
         \E files \in {WriteTo(dest, temp, SubSeq(FileContent(w_content), 1, n))} :
            /\ dest' = files.dest
            /\ temp' = files.temp
            /\ w_pc' = IF ok THEN "fsync" ELSE "cleanup"
            /\ w_fail' = IF ok THEN w_fail ELSE "write"
  /\ UNCHANGED <<pc, decodeVars, driverVars, dest0, w_content>>

\* f.flush(); os.fsync(f.fileno()); and the close at the end of the with block
Fsync ==
  /\ w_pc = "fsync"
  /\ \E ok \in BOOLEAN :
       /\ w_pc' = IF ok THEN "rename" ELSE "cleanup"
       /\ w_fail' = IF ok THEN w_fail ELSE "fsync"
  /\ UNCHANGED <<pc, decodeVars, driverVars, fileVars, w_content>>

\* os.rename(temp_path, output_file)
Rename ==
  /\ w_pc = "rename"
  /\ \E ok \in BOOLEAN :
       IF ok
       THEN /\ dest' = temp
            /\ temp' = NoFile
            /\ w_pc' = "chmod"
            /\ w_fail' = w_fail
       ELSE /\ UNCHANGED <<dest, temp>>
            /\ w_pc' = "cleanup"
            /\ w_fail' = "rename"
  /\ UNCHANGED <<pc, decodeVars, driverVars, dest0, w_content>>

\* os.chmod(output_file, 0o644)
Chmod ==
  /\ w_pc = "chmod"
  /\ \E ok \in BOOLEAN :
       IF ok
       THEN /\ dest' = [dest EXCEPT !.mode = "0644"]
            /\ w_pc' = "returned"
            /\ w_fail' = w_fail
       ELSE /\ dest' = dest
            /\ w_pc' = "cleanup"
            /\ w_fail' = "chmod"
  /\ UNCHANGED <<pc, decodeVars, driverVars, temp, dest0, w_content>>

\* except Exception: os.unlink(temp_path), errors ignored; raise e
Cleanup ==
  /\ w_pc = "cleanup"
  /\ temp' = NoFile
  /\ w_pc' = "raised"
  /\ UNCHANGED <<pc, decodeVars, driverVars, dest, dest0, w_content, w_fail>>

\* ------------------------------------------------------------------------
\* export_to_file (mode "single") and run_config_mode (mode "config")
\* ------------------------------------------------------------------------
Init ==
  /\ mode \in {"single", "config"}
  /\ probes \in IF mode = "single" THEN {<<P_a>>, <<P_b>>, <<P_blank>>}
                ELSE SeqsUpTo({P_a, P_b, P_notarget}, MaxProbes)
  /\ idx = 1
  /\ pc = "start"
  /\ result = NoData
  /\ mtr_data = NoData
  /\ hops = <<>>
  /\ summary = EmptySummary
  /\ all_metrics = <<>>
  /\ clean_metrics = <<>>
  /\ exit = Running
  /\ dest0 \in {NoFile, OldFile}
  /\ dest = dest0
  /\ temp = NoFile
  /\ w_pc = "idle" /\ w_content = <<>> /\ w_fail = "none"
  /\ log = [i \in 1..Len(probes) |-> NewEntry]
  /\ trace = NewTrace
  /\ validated = [none |-> TRUE, text |-> <<>>]
  /\ clean_host_display = <<>>
  /\ writers = NoWriters

Note(field, value) == [log EXCEPT ![idx][field] = value]

\* the process ends
Exit(code, reason) ==
  /\ pc' = "exited"
  /\ exit' = Ended(code, reason)

\* 'if not probes: sys.exit(1)'; export_to_file starts with run_mtr
Start ==
  /\ pc = "start"
  /\ IF mode = "config"
     THEN IF probes = <<>> THEN Exit(1, "no_probes")
          ELSE pc' = "loop" /\ exit' = exit
     ELSE pc' = "run_json" /\ exit' = exit
  /\ UNCHANGED <<decodeVars, mode, probes, clean_host_display, writers, idx, all_metrics, clean_metrics, log,
                 trace, validated, fileVars, writerVars>>

\* 'if not target: continue'
SkipProbe ==
  /\ pc = "loop"
  /\ idx <= Len(probes)
  /\ probes[idx].target = <<>>
  /\ log' = Note("status", "skipped")
  /\ idx' = idx + 1
  /\ UNCHANGED <<pc, decodeVars, mode, probes, clean_host_display, writers, all_metrics, clean_metrics, exit,
                 trace, validated, fileVars, writerVars>>

\* exporter = MTRPrometheusExporter(...); exporter.run_mtr()
BeginProbe ==
  /\ pc = "loop"
  /\ idx <= Len(probes)
  /\ probes[idx].target # <<>>
  /\ pc' = "run_json"
  /\ log' = Note("status", "started")
  /\ UNCHANGED <<decodeVars, mode, probes, clean_host_display, writers, idx, all_metrics, clean_metrics, exit,
                 trace, validated, fileVars, writerVars>>

\* run_mtr: subprocess.run(cmd) with 'mtr -j', then json.loads
RunJson ==
  /\ pc = "run_json"
  /\ \E res \in JsonResults :
       \E nxt \in {AfterJson(res)} :
       \E decoded \in {~res.raised /\ res.returncode = 0 /\ JsonLoads(res.stdout).ok} :
          /\ result' = IF nxt = "return" THEN NoData ELSE res
          /\ trace' = [trace EXCEPT
                         !.json = IF res.raised THEN "timeout"
                                  ELSE IF res.returncode # 0 THEN "cmd_failed"
                                  ELSE IF decoded THEN "decoded" ELSE "decode_error",
                         !.json_stdout = res.stdout]
          /\ mtr_data' = IF nxt = "return" THEN JsonLoads(res.stdout).v ELSE mtr_data
          /\ IF nxt = "exit"
             THEN Exit(1, IF res.raised THEN "mtr_timeout" ELSE "json_error")
             ELSE /\ pc' = IF nxt = "return" THEN "parse_data" ELSE "run_text"
                  /\ exit' = exit
  /\ UNCHANGED <<hops, summary, mode, probes, clean_host_display, writers, idx, all_metrics,
                 clean_metrics, log, validated, fileVars, writerVars>>

\* run_mtr: subprocess.run(cmd_text) with 'mtr --report'
RunText ==
  /\ pc = "run_text"
  /\ \E res \in TextResults :
       \E nxt \in {AfterText(res)} :
          /\ result' = res
          /\ trace' = [trace EXCEPT
                         !.text = IF res.raised THEN "timeout"
                                  ELSE IF res.returncode # 0 THEN "cmd_failed"
                                  ELSE "started",
                         !.text_stdout = res.stdout]
          /\ IF nxt = "exit"
             THEN Exit(1, IF res.raised THEN "mtr_timeout" ELSE "mtr_failed")
             ELSE pc' = "text_decode" /\ exit' = exit
  /\ UNCHANGED <<mtr_data, hops, summary, mode, probes, clean_host_display, writers, idx,
                 all_metrics, clean_metrics, log, validated, fileVars, writerVars>>

\* hops = parse_mtr_data(mtr_data), and the branch on its result; an
\* exception of parse_mtr_data is caught nowhere and ends the process
ParseProbe ==
  /\ pc = "parse_data"
  /\ mode # "parse"
  /\ \E r \in {parse_mtr_data(mtr_data)} :
        IF ~r.ok
        THEN /\ Exit(1, "uncaught")
             /\ log' = Note("status", "raised")
             /\ hops' = hops
        ELSE /\ hops' = r.v
             /\ IF mode = "single"
                THEN IF NoHopData(r.v)
                     THEN /\ Exit(1, "no_hops")
                          /\ log' = Note("status", "no_hops")
                     ELSE /\ pc' = "generate"
                          /\ log' = Note("nhops", Len(r.v))
                          /\ exit' = exit
                ELSE IF HasHops(r.v)
                     THEN /\ pc' = "generate"
                          /\ log' = Note("nhops", Len(r.v))
                          /\ exit' = exit
                     ELSE /\ pc' = "no_hops"
                          /\ log' = Note("status", "no_hops")
                          /\ exit' = exit
  /\ UNCHANGED <<result, mtr_data, summary, mode, probes, clean_host_display, writers, idx, all_metrics,
                 clean_metrics, trace, validated, fileVars, writerVars>>

\* 'else: print("[ERROR] No hop data found ...")', and on to the next probe
ReportNoHops ==
  /\ pc = "no_hops"
  /\ pc' = "loop"
  /\ idx' = idx + 1
  /\ trace' = NewTrace
  /\ UNCHANGED <<decodeVars, mode, probes, clean_host_display, writers, all_metrics, clean_metrics, exit, log,
                 validated, fileVars, writerVars>>

\* generate_prometheus_metrics(hops) of an exporter constructed at some
\* reading of the clock; run_config_mode appends the text, export_to_file
\* drops its blank lines
Generate ==
  /\ pc = "generate"
  /\ summary' = calculate_path_health_summary(hops)
  /\ \E timestamp \in Timestamps :
     \E g \in {generate_prometheus_metrics(Exporter(probes[idx], timestamp), hops)} :
        IF ~g.ok
        THEN /\ Exit(1, "uncaught")
             /\ log' = Note("status", "raised")
             /\ UNCHANGED <<all_metrics, clean_metrics, idx, trace>>
        ELSE /\ log' = Note("status", "rendered")
             /\ exit' = exit
             /\ trace' = NewTrace
             /\ IF mode = "single"
                THEN /\ clean_metrics' = DropBlankLines(g.v)
                     /\ pc' = "validate"
                     /\ UNCHANGED <<all_metrics, idx>>
                ELSE /\ all_metrics' = Append(all_metrics, g.v)
                     /\ pc' = "loop"
                     /\ idx' = idx + 1
                     /\ clean_metrics' = clean_metrics
  /\ UNCHANGED <<result, mtr_data, hops, mode, probes, clean_host_display, writers, validated,
                 fileVars, writerVars>>

\* after the loop: 'if not all_metrics: sys.exit(1)', else join and clean
EndLoop ==
  /\ pc = "loop"
  /\ idx > Len(probes)
  /\ IF NoResults(all_metrics)
     THEN /\ Exit(1, "no_results")
          /\ clean_metrics' = clean_metrics
     ELSE /\ clean_metrics' = DropBlankLines(Join(all_metrics, <<"\n">>))
          /\ pc' = "validate"
          /\ exit' = exit
  /\ UNCHANGED <<decodeVars, mode, probes, clean_host_display, writers, idx, all_metrics, log, trace, validated,
                 fileVars, writerVars>>

\* 'if not validate_prometheus_metrics(clean_metrics): sys.exit(1)'
Validate ==
  /\ pc = "validate"
  /\ IF validate_prometheus_metrics(clean_metrics)
     THEN /\ validated' = [none |-> FALSE, text |-> clean_metrics]
          /\ pc' = "write"
          /\ exit' = exit
     ELSE /\ Exit(1, "validation")
          /\ validated' = validated
  /\ UNCHANGED <<decodeVars, mode, probes, clean_host_display, writers, idx, all_metrics, clean_metrics, log,
                 trace, fileVars, writerVars>>

\* atomic_write_metrics(clean_metrics, output_file) is entered
InvokeWriter ==
  /\ pc = "write"
  /\ w_pc = "idle"
  /\ pc' = "writing"
  /\ w_pc' = "mkstemp"
  /\ w_content' = clean_metrics
  /\ UNCHANGED <<decodeVars, driverVars, fileVars, w_fail>>

\* atomic_write_metrics returned, or raised: run_config_mode catches the
\* exception and exits with 1, export_to_file lets it end the process
WriterDone ==
  /\ pc = "writing"
  /\ w_pc \in {"returned", "raised"}
  /\ IF w_pc = "returned" THEN Exit(0, "ok") ELSE Exit(1, "write_failed")
  /\ UNCHANGED <<decodeVars, mode, probes, clean_host_display, writers, idx, all_metrics, clean_metrics, log,
                 trace, validated, fileVars, writerVars>>

Next ==
  \/ Start \/ SkipProbe \/ BeginProbe
  \/ RunJson \/ RunText \/ DecodeText
  \/ ParseProbe \/ ReportNoHops \/ Generate \/ EndLoop
  \/ Validate \/ InvokeWriter
  \/ Mkstemp \/ WriteTemp \/ Fsync \/ Rename \/ Chmod \/ Cleanup
  \/ WriterDone

Spec == Init /\ [][Next]_vars
\* ------------------------------------------------------------------------
\* generate_prometheus_metrics over hop sequences, rendered twice, and the
\* validation of the joined text
\* ------------------------------------------------------------------------
\* a responding hop, a lossy hop whose host holds a space, the silent
\* sentinel host, a named host that never answers and a hop whose loss
\* figure is nan (the loss token 'nan%' of a textual report)
RenderHopPool ==
  {[HopOf(0, 16, 1) EXCEPT !.worst_ms = 18],
   [HopOf(125, 2505, 35) EXCEPT !.host = StrV(<<"g", " ", "w">>)],
   [HopOf(1000, 0, 0) EXCEPT !.host = StrV(S_Silent)],
   HopOf(1000, 0, 0),
   HopOf(NaN, 10, 1)}

RenderHops ==
  {[i \in 1..Len(s) |-> [s[i] EXCEPT !.hop = i]] :
     s \in SeqsUpTo(RenderHopPool, MaxHops) \ {<<>>}}

\* two probes of the same configuration, the first about to be rendered
InitRender ==
  /\ pc = "generate"
  /\ mode = "config"
  /\ probes \in {<<P_a, P_a>>, <<P_b, P_b>>, <<P_c, P_c>>}
  /\ idx = 1
  /\ result = NoData
  /\ mtr_data = NoData
  /\ hops \in RenderHops
  /\ summary = EmptySummary
  /\ all_metrics = <<>> /\ clean_metrics = <<>>
  /\ exit = Running
  /\ dest = NoFile /\ temp = NoFile /\ dest0 = NoFile
  /\ w_pc = "idle" /\ w_content = <<>> /\ w_fail = "none"
  /\ log = <<[NewEntry EXCEPT !.status = "started", !.nhops = Len(hops)], NewEntry>>
  /\ trace = NewTrace
  /\ validated = [none |-> TRUE, text |-> <<>>]
  /\ clean_host_display = <<>>
  /\ writers = NoWriters

\* the next probe's run of mtr reports the same hops: run_mtr and
\* parse_mtr_data of the next iteration, up to the call of the renderer
SameHopsAgain ==
  /\ pc = "loop"
  /\ idx <= Len(probes)
  /\ pc' = "generate"
  /\ log' = [log EXCEPT ![idx] = [status |-> "started", nhops |-> Len(hops)]]
  /\ UNCHANGED <<decodeVars, mode, probes, clean_host_display, writers, idx, all_metrics,
                 clean_metrics, exit, trace, validated, fileVars, writerVars>>

\* the two renderings are then joined, cleaned and validated
NextRender == Generate \/ SameHopsAgain \/ EndLoop \/ Validate

SpecRender == InitRender /\ [][NextRender]_vars


\* ------------------------------------------------------------------------
\* atomic_write_metrics called twice at the same time for one destination
\* ------------------------------------------------------------------------
InitConcurrent ==
  /\ pc = "writing"
  /\ mode = "concurrent"
  /\ probes = <<P_a>>
  /\ idx = 1
  /\ result = NoData
  /\ mtr_data = NoData
  /\ hops = <<>>
  /\ summary = EmptySummary
  /\ all_metrics = <<>> /\ clean_metrics = <<>>
  /\ exit = Running
  /\ dest0 \in {NoFile, OldFile}
  /\ dest = dest0
  /\ temp = NoFile
  /\ w_pc = "idle" /\ w_content = <<>> /\ w_fail = "none"
  /\ log = <<NewEntry>>
  /\ trace = NewTrace
  /\ validated = [none |-> TRUE, text |-> <<>>]
  /\ clean_host_display = <<>>
  /\ writers = [NoWriters EXCEPT !.pc = <<"mkstemp", "mkstemp">>]

\* the next system call of call w; each may fail with an OSError.  The
\* write goes to the descriptor, whether or not the name is still linked;
\* rename and unlink act on the name temp_path.
WriterStep(w) ==
  /\ UNCHANGED <<pc, decodeVars, mode, probes, clean_host_display, idx, all_metrics,
                 clean_metrics, exit, log, trace, validated, temp, dest0, writerVars>>
  /\ \E ok \in BOOLEAN :
     \E p \in {writers.path[w]} :
     \E data \in {FileContent(Contents[w])} :
       \/ /\ writers.pc[w] = "mkstemp"
          /\ dest' = dest
          /\ IF ok
             THEN \E n \in FreshNames(writers.tmp) :
                    writers' = [writers EXCEPT !.pc[w] = "write", !.path[w] = n,
                                  !.tmp[n] = [exists |-> TRUE, content |-> <<>>, mode |-> "0600"]]
             ELSE writers' = [writers EXCEPT !.pc[w] = "raised"]
       \/ /\ writers.pc[w] = "write"
          /\ \E n \in IF ok THEN {Len(data)} ELSE {0, Len(data) \div 2} :
             \E files \in {WriteTo(dest, writers.tmp[p], SubSeq(data, 1, n))} :
               /\ dest' = files.dest
               /\ writers' = [writers EXCEPT
                                !.pc[w] = IF ok THEN "fsync" ELSE "cleanup",
                                !.tmp[p] = IF @.exists THEN files.temp ELSE @]
       \/ /\ writers.pc[w] = "fsync"
          /\ dest' = dest
          /\ writers' = [writers EXCEPT !.pc[w] = IF ok THEN "rename" ELSE "cleanup"]
       \/ /\ writers.pc[w] = "rename"
          /\ IF ok /\ writers.tmp[p].exists
             THEN /\ dest' = writers.tmp[p]
                  /\ writers' = [writers EXCEPT !.pc[w] = "chmod", !.tmp[p] = NoFile]
             ELSE /\ dest' = dest
                  /\ writers' = [writers EXCEPT !.pc[w] = "cleanup"]
       \/ /\ writers.pc[w] = "chmod"
          /\ IF ok
             THEN /\ dest' = [dest EXCEPT !.mode = "0644"]
                  /\ writers' = [writers EXCEPT !.pc[w] = "returned"]
             ELSE /\ dest' = dest
                  /\ writers' = [writers EXCEPT !.pc[w] = "cleanup"]
       \/ /\ writers.pc[w] = "cleanup"
          /\ dest' = dest
          /\ writers' = [writers EXCEPT !.pc[w] = "raised",
                           !.tmp = IF p \in TempNames THEN [@ EXCEPT ![p] = NoFile] ELSE @]

SpecConcurrent == InitConcurrent /\ [][\E w \in {1, 2} : WriterStep(w)]_vars

\* ------------------------------------------------------------------------
\* properties of the textual decode
\* ------------------------------------------------------------------------
\* the lines of a report
ReportLines(text) == Split(Strip(text), "\n")

IsIntText(s) == Unsigned(s) # <<>> /\ AllDigits(Unsigned(s))

IsNumText(s) ==
  LET f == Split(Unsigned(s), ".")
  IN \/ /\ Len(f) <= 2
        /\ \A i \in 1..Len(f) : AllDigits(f[i])
        /\ \E i \in 1..Len(f) : f[i] # <<>>
     \/ Unsigned(s) = <<"n", "a", "n">>

\* position of the loss token: the first token ending in '%'
LossPos(tok) ==
  CHOOSE p \in 1..Len(tok) :
    /\ EndsWith(tok[p], <<"%">>)
    /\ \A q \in 1..(p - 1) : ~EndsWith(tok[q], <<"%">>)

\* a well-formed hop line: a hop marker, at least 7 tokens, an integer hop
\* index, a loss token with a numeric prefix, and at least 5 numeric values
\* after it (an integer, then numbers)
WellFormedLine(raw) ==
  LET tok == SplitWS(raw)
      p == LossPos(tok)
      tail == SubSeq(tok, p + 1, Len(tok))
  IN /\ IsHopLine(Strip(raw))
     /\ Len(tok) >= 7
     /\ IsIntText(Split(tok[1], ".")[1])
     /\ \E q \in 1..Len(tok) : EndsWith(tok[q], <<"%">>)
     /\ IsNumText(RStripChar(tok[p], "%"))
     /\ Len(tail) >= 5
     /\ IsIntText(tail[1])
     /\ \A i \in 2..Min(Len(tail), 6) : IsNumText(tail[i])

\* the record a well-formed line stands for
ExpectedHub(raw) ==
  LET tok == SplitWS(raw)
      p == LossPos(tok)
      index == PyInt(Split(tok[1], ".")[1]).v
  IN MakeHub(index,
             IF tok[2] = S_Silent THEN S_hop_ \o IntToStr(index) ELSE tok[2],
             PyFloat(RStripChar(tok[p], "%")).v,
             PyInt(tok[p + 1]).v, PyFloat(tok[p + 2]).v, PyFloat(tok[p + 3]).v,
             PyFloat(tok[p + 4]).v, PyFloat(tok[p + 5]).v,
             IF Len(tok) > p + 5 THEN PyFloat(tok[p + 6]).v ELSE 0)

ExpectedHubs(text) ==
  LET wf == SelectSeq(ReportLines(text), WellFormedLine)
  IN [i \in 1..Len(wf) |-> ExpectedHub(wf[i])]

\* C1: parse_mtr_text_output emits exactly one hub per well-formed hop line,
\* in the order of the lines; every other line is dropped and changes neither
\* the order nor the content of the records of the well-formed lines.
C1_OneHubPerWellFormedLine ==
  pc = "parse_data" => mtr_data.report.hubs = ExpectedHubs(trace.text_input)

\* a report with a malformed hop line between two well-formed ones, decoded
C1_Witness ==
  /\ pc = "parse_data"
  /\ LET ls == ReportLines(trace.text_input)
     IN /\ Len(ls) = 3
        /\ WellFormedLine(ls[1]) /\ WellFormedLine(ls[3])
        /\ IsHopLine(Strip(ls[2])) /\ ~WellFormedLine(ls[2])
        /\ ls[1] # ls[3]
  /\ Len(mtr_data.report.hubs) = 2

\* ------------------------------------------------------------------------
\* properties of the atomic writer
\* ------------------------------------------------------------------------
\* the file holds the complete new content
HoldsNewContent(f) == f.exists /\ f.content = FileContent(w_content)

C3_RaiseKeepsPrior == w_pc = "raised" => dest = dest0

\* ------------------------------------------------------------------------
\* properties of the drivers
\* ------------------------------------------------------------------------
\* a sample line: text, one space, and a number as the last field
IsSampleLine(line) ==
  \E k \in 1..(Len(line) - 1) :
    /\ line[k] = " "
    /\ \A j \in (k + 1)..Len(line) : line[j] # " "
    /\ \E j \in 1..(k - 1) : line[j] \notin Whitespace
    /\ PyFloat(SubSeq(line, k + 1, Len(line))).ok

EverySampleLine(text) ==
  \A lines \in {Split(text, "\n")} : \A i \in 1..Len(lines) : IsSampleLine(lines[i])

\* C4: the writer is entered only with a text the validator has accepted,
\* every line of which is a sample line; when validation fails the run ends
\* with exit code 1 and neither the temporary file nor the destination is
\* created or changed.
C4_ValidationGatesWrite ==
  /\ w_pc # "idle" =>
       (~validated.none /\ validated.text = w_content /\ EverySampleLine(w_content))
  /\ exit.reason = "validation" =>
       (exit.code = 1 /\ w_pc = "idle" /\ dest = dest0 /\ temp = NoFile)

\* validation failed over an existing destination
C4_Witness ==
  /\ exit.reason = "validation"
  /\ clean_metrics # <<>>
  /\ dest0 = OldFile
  /\ dest = OldFile

\* C5: in run_config_mode a probe whose parse or render stage raised does
\* not end the run: every later probe is still processed.
C5_FailureDoesNotAbort ==
  (mode = "config" /\ pc = "exited") =>
    \A i \in 1..Len(probes) :
      log[i].status = "raised" =>
        \A j \in (i + 1)..Len(probes) : log[j].status # "pending"

\* C6: when no probe of run_config_mode yields a hop, the writer is never
\* entered, the destination and the temporary file are untouched, and the
\* run ends with exit code 1.
C6_AllProbesFail ==
  (mode = "config" /\ \A i \in 1..Len(probes) : log[i].nhops = 0) =>
    /\ w_pc = "idle"
    /\ dest = dest0
    /\ temp = NoFile
    /\ pc = "exited" => exit.code = 1

\* two probes ran, neither yielded a hop, the run ended
C6_Witness ==
  /\ mode = "config"
  /\ Len(probes) = 2
  /\ \A i \in 1..Len(probes) : log[i].status = "no_hops"
  /\ exit = Ended(1, "no_results")
  /\ dest0 = OldFile
  /\ dest = OldFile

\* "no hop data" is being reported for the probe at hand
NoHopsReported == pc = "no_hops" \/ exit.reason = "no_hops"

C8_DecodeErrorFallsBack ==
  trace.json = "decode_error" =>
    \/ pc = "run_text" /\ exit = Running
    \/ trace.text # "not_run"

\* hops decoded from the text report after a JSON decode error, about to be
\* rendered
C8_Witness ==
  /\ mode # "parse"
  /\ pc = "generate"
  /\ trace.json = "decode_error"
  /\ trace.text = "decoded"
  /\ hops # <<>>

\* C9 as stated: after a JSON decode error the textual decode reads the
\* bytes that failed to decode.
C9_SameBytes ==
  (pc = "parse_data" /\ trace.json = "decode_error" /\ trace.text = "decoded") =>
    trace.text_input = trace.json_stdout.text

\* C9: the textual decode reads the standard output of the text command,
\* and its hubs are the decoded report.
C9_TextRunOutput ==
  (pc = "parse_data" /\ mode # "parse" /\ trace.text = "decoded") =>
    /\ trace.text_input = trace.text_stdout.text
    /\ mtr_data = [report |-> [hubs |-> parse_mtr_text_output(trace.text_stdout.text)]]

\* a text report decoded after JSON output that was no JSON and no report
C9_Witness ==
  /\ pc = "parse_data"
  /\ mode # "parse"
  /\ trace.json = "decode_error"
  /\ trace.text = "decoded"
  /\ trace.json_stdout.text # trace.text_stdout.text
  /\ Len(mtr_data.report.hubs) = 1

\* ------------------------------------------------------------------------
\* properties of the health score
\* ------------------------------------------------------------------------
\* C10: the healthScore of every hop sequence the parser produces lies in
\* [0, 100] (0..1000 tenths).
C10_ScoreInRange ==
  (pc = "analyzed" /\ ~summary.empty) =>
    (summary.health_score >= 0 /\ summary.health_score <= 1000)

\* ------------------------------------------------------------------------
\* properties of the path health summary
\* ------------------------------------------------------------------------
\* the summary of the hops at hand with the loss of hop i set to l
WithLoss(i, l) == calculate_path_health_summary([hops EXCEPT ![i].loss_percent = l])

\* the two summaries agree in every factor of the score but the loss
SameOtherFactors(s, t) ==
  /\ s.end_to_end_jitter_ms = t.end_to_end_jitter_ms
  /\ s.end_to_end_rtt_ms = t.end_to_end_rtt_ms
  /\ s.rtt_variance_ms = t.rtt_variance_ms

\* C11: of two inputs that differ in the loss of one hop only and have the
\* same end-to-end jitter, RTT and RTT variance, the one with the larger
\* end-to-end loss never has the larger rounded health score.
C11_ScoreNonIncreasingInLoss ==
  (pc = "analyzed" /\ ~summary.empty) =>
    \A i \in 1..Len(hops) : \A l \in LossPool :
      \A other \in {WithLoss(i, l)} :
        (SameOtherFactors(summary, other)
           /\ other.end_to_end_loss_percent >= summary.end_to_end_loss_percent)
          => other.health_score <= summary.health_score

\* an input whose score drops strictly when the loss of its reference hop
\* rises
C11_Witness ==
  /\ pc = "analyzed" /\ ~summary.empty
  /\ \E i \in 1..Len(hops) : \E l \in LossPool :
       /\ SameOtherFactors(summary, WithLoss(i, l))
       /\ WithLoss(i, l).end_to_end_loss_percent > summary.end_to_end_loss_percent
       /\ WithLoss(i, l).health_score < summary.health_score

\* the score of a summary before rounding, in 1/200 of a point
ScoreOf(s) ==
  HealthScore(s.end_to_end_loss_percent, s.end_to_end_jitter_ms,
              s.end_to_end_rtt_ms, s.rtt_variance_ms)

\* C12: the status is CRITICAL when the end-to-end loss is above 50, else
\* POOR when it is above 10, else it follows the score: EXCELLENT from 90,
\* GOOD from 75, FAIR from 60, POOR below.
C12_StatusLossDominant ==
  (pc = "analyzed" /\ ~summary.empty) =>
    summary.health_status =
      IF summary.end_to_end_loss_percent > 500 THEN "CRITICAL"
      ELSE IF summary.end_to_end_loss_percent > 100 THEN "POOR"
      ELSE IF ScoreOf(summary) >= 18000 THEN "EXCELLENT"
      ELSE IF ScoreOf(summary) >= 15000 THEN "GOOD"
      ELSE IF ScoreOf(summary) >= 12000 THEN "FAIR"
      ELSE "POOR"

\* a loss of 11 percent overrides a score that alone would be GOOD
C12_Witness ==
  /\ pc = "analyzed" /\ ~summary.empty
  /\ summary.end_to_end_loss_percent = 110
  /\ ScoreOf(summary) >= 15000
  /\ summary.health_status = "POOR"

\* ------------------------------------------------------------------------
\* properties of the label sanitization
\* ------------------------------------------------------------------------
\* C13: clean_hostname is idempotent, and its result is not empty and holds
\* only alphanumerics and the characters - _ . : /
C13_CleanIdempotentAndClosed ==
  pc = "cleaned" =>
    /\ clean_hostname(clean_host_display, hops[idx].hop) = clean_host_display
    /\ clean_host_display # <<>>
    /\ \A i \in 1..Len(clean_host_display) :
         clean_host_display[i] \in Letter \cup Digit \cup {"-", "_", ".", ":", "/"}

\* a name with the silent sentinel and an unsafe character, cleaned
C13_Witness ==
  /\ pc = "cleaned"
  /\ hops[idx].host.s = <<"?", "?", "?", "!">>
  /\ hops[idx].hop = 10
  /\ clean_host_display = <<"h","o","p","_","1","0","_","s","i","l","e","n","t">>

\* ------------------------------------------------------------------------
\* properties of the persisted file
\* ------------------------------------------------------------------------
\* the text ends with a line feed and none of the lines before it is blank
\* (empty or white space only): one trailing line feed, no blank line
OneTrailingNewlineNoBlank(text) ==
  /\ text # <<>>
  /\ text[Len(text)] = "\n"
  /\ \A lines \in {Split(SubSeq(text, 1, Len(text) - 1), "\n")} :
       \A i \in 1..Len(lines) : Strip(lines[i]) # <<>>

\* C14: the file the writer has put at the destination ends with exactly
\* one trailing line feed and has no blank line.
C14_OneTrailingNewline ==
  dest # dest0 => OneTrailingNewlineNoBlank(dest.content)

\* a rendering with empty lines, cleaned, validated and persisted
C14_Witness ==
  /\ mode = "single"
  /\ probes = <<P_blank>>
  /\ w_pc = "returned"
  /\ dest # dest0
  /\ dest.content = clean_metrics \o <<"\n">>
  /\ clean_metrics # generate_prometheus_metrics(Exporter(P_blank, 1), hops).v

\* ------------------------------------------------------------------------
\* properties of the rendering
\* ------------------------------------------------------------------------
\* a loss figure below 100, and one of 100 or more; nan is neither
Below100(loss) == loss # NaN /\ loss < 1000
AtLeast100(loss) == loss # NaN /\ loss >= 1000

\* the lines of the rendering made last
RenderedLines == Split(all_metrics[Len(all_metrics)], "\n")

\* the label hop="n" as it stands between other labels
HopTag(n) == <<",", "h", "o", "p", "=", "\"">> \o IntToStr(n) \o <<"\"", ",">>

\* the lines of the family name that carry the label of hop n
LinesOf(lines, name, n) ==
  {i \in 1..Len(lines) :
     StartsWith(lines[i], name \o <<"{">>) /\ Contains(lines[i], HopTag(n))}

\* the per-hop families of the measurements
PerHopFamilies ==
  {<<"m","t","r","_","l","o","s","s","_","p","e","r","c","e","n","t">>,
   <<"m","t","r","_","p","a","c","k","e","t","s","_","s","e","n","t">>,
   <<"m","t","r","_","l","a","s","t","_","r","t","t","_","m","s">>,
   <<"m","t","r","_","a","v","g","_","r","t","t","_","m","s">>,
   <<"m","t","r","_","b","e","s","t","_","r","t","t","_","m","s">>,
   <<"m","t","r","_","w","o","r","s","t","_","r","t","t","_","m","s">>,
   <<"m","t","r","_","j","i","t","t","e","r","_","m","s">>}

N_hop_info == <<"m","t","r","_","h","o","p","_","i","n","f","o">>
N_silent_hops_count ==
  <<"m","t","r","_","s","i","l","e","n","t","_","h","o","p","s","_","c","o","u","n","t">>

\* the lines of the family name, whatever their labels
FamilyLines(lines, name) == {i \in 1..Len(lines) : StartsWith(lines[i], name \o <<"{">>)}

\* a rendering of probe P_a (labels without a line break) is at hand
RenderedPlain == all_metrics # <<>> /\ probes[1] \in {P_a, P_c} /\ mode = "config"

\* C15: each of the seven per-hop measurement families has one line for a
\* hop with loss below 100 and none for a silent hop; a silent hop appears
\* in the rendering only as one mtr_hop_info line with value 1 and the
\* label responding="false", and in the value of mtr_silent_hops_count.
C15_SilentHopsOnlyCounted ==
  (pc = "loop" /\ RenderedPlain) =>
    \A lines \in {RenderedLines} :
      /\ \A h \in 1..Len(hops) :
           /\ \A name \in PerHopFamilies :
                Cardinality(LinesOf(lines, name, hops[h].hop)) =
                  IF Below100(hops[h].loss_percent) THEN 1 ELSE 0
           /\ Cardinality(LinesOf(lines, N_hop_info, hops[h].hop)) = 1
           /\ AtLeast100(hops[h].loss_percent) =>
                /\ {i \in 1..Len(lines) : Contains(lines[i], HopTag(hops[h].hop))}
                     = LinesOf(lines, N_hop_info, hops[h].hop)
                /\ \A i \in LinesOf(lines, N_hop_info, hops[h].hop) :
                     /\ EndsWith(lines[i], <<"\"", "}", " ", "1">>)
                     /\ Contains(lines[i], <<"r","e","s","p","o","n","d","i","n","g","=","\"","f","a","l","s","e","\"">>)
      /\ Cardinality(FamilyLines(lines, N_silent_hops_count)) = 1
      /\ \A i \in FamilyLines(lines, N_silent_hops_count) :
           EndsWith(lines[i], <<"}", " ">> \o
             IntToStr(Cardinality({h \in 1..Len(hops) : AtLeast100(hops[h].loss_percent)})))

\* a responding hop and the silent sentinel host, rendered
C15_Witness ==
  /\ pc = "loop" /\ RenderedPlain
  /\ Len(hops) = 2
  /\ hops[1].loss_percent = 0
  /\ hops[2].loss_percent = 1000 /\ hops[2].host.s = S_Silent
  /\ \E i \in 1..Len(RenderedLines) :
       Contains(RenderedLines[i], <<"h","o","s","t","=","\"","h","o","p","_","2","_","s","i","l","e","n","t","\"">>)

N_hop_count == <<"m","t","r","_","h","o","p","_","c","o","u","n","t">>
N_avg_rtt_ms == <<"m","t","r","_","a","v","g","_","r","t","t","_","m","s">>

\* C16: for a single hop with loss 100 the summary has an end-to-end loss
\* of 100 and the status CRITICAL, and the rendering has an mtr_hop_count
\* line, mtr_silent_hops_count with value 1, one mtr_hop_info line with
\* responding="false" and value 1, and no mtr_avg_rtt_ms line.
C16_FullySilentReport ==
  (pc = "loop" /\ RenderedPlain /\ Len(hops) = 1 /\ hops[1].loss_percent = 1000) =>
    /\ summary.end_to_end_loss_percent = 1000
    /\ summary.health_status = "CRITICAL"
    /\ \A lines \in {RenderedLines} :
         /\ Cardinality(FamilyLines(lines, N_hop_count)) = 1
         /\ \E i \in FamilyLines(lines, N_silent_hops_count) :
              EndsWith(lines[i], <<"}", " ", "1">>)
         /\ Cardinality(FamilyLines(lines, N_hop_info)) = 1
         /\ \A i \in FamilyLines(lines, N_hop_info) :
              /\ Contains(lines[i], <<"r","e","s","p","o","n","d","i","n","g","=","\"","f","a","l","s","e","\"">>)
              /\ EndsWith(lines[i], <<"}", " ", "1">>)
         /\ FamilyLines(lines, N_avg_rtt_ms) = {}

\* the report of one silent sentinel hop, rendered
C16_Witness ==
  /\ pc = "loop" /\ RenderedPlain
  /\ Len(hops) = 1
  /\ hops[1].loss_percent = 1000
  /\ hops[1].host.s = S_Silent
  /\ summary.health_status = "CRITICAL"
  /\ Len(RenderedLines) = 13

\* C17: two renderings of the same hops by exporters of the same target,
\* probe name, port, protocol and custom labels, constructed at whatever
\* readings of the clock, are the same text: the same lines in the same
\* order.
C17_RenderingDeterministic ==
  (Len(all_metrics) = 2 /\ probes[1] = probes[2]) => all_metrics[1] = all_metrics[2]

\* two hops rendered twice for an upper-case protocol and a label key with
\* a line break
C17_Witness ==
  /\ Len(all_metrics) = 2
  /\ probes = <<P_b, P_b>>
  /\ Len(hops) = 2
  /\ all_metrics[1] = all_metrics[2]
  /\ Contains(all_metrics[2], <<"p","r","o","t","o","c","o","l","=","\"","u","d","p","\"">>)

\* ------------------------------------------------------------------------
\* properties of the two report formats
\* ------------------------------------------------------------------------
\* the structured hub entry that states the hop of a well-formed line: the
\* same index, host, loss, sent, last, avg, best, worst and jitter
StructuredHub(raw) == [ExpectedHub(raw) EXCEPT !.host = StrV(SplitWS(raw)[2])]

\* the structured report that states the hops of a textual report
StructuredReport(text) ==
  LET wf == SelectSeq(ReportLines(text), WellFormedLine)
  IN [report |-> [hubs |-> [i \in 1..Len(wf) |-> StructuredHub(wf[i])]]]

\* C18: the hop records made from a textual report equal, field by field,
\* the hop records made from the structured report that states the same
\* hops, the silent sentinel host '???' included.
C18_SameHopsFromEitherFormat ==
  pc = "analyze" => Ok(hops) = parse_mtr_data(StructuredReport(trace.text_input))

\* ------------------------------------------------------------------------
\* properties of the summary's figures
\* ------------------------------------------------------------------------
\* the positions of the hops with loss below 100
RespondingAt(hs) == {i \in 1..Len(hs) : Below100(hs[i].loss_percent)}

\* the last hop with loss below 100, the last hop when there is none
EndToEndHop(hs) ==
  IF RespondingAt(hs) = {} THEN hs[Len(hs)]
  ELSE hs[CHOOSE i \in RespondingAt(hs) : \A j \in RespondingAt(hs) : j <= i]

\* C19: the end-to-end loss, RTT and jitter of the summary are the loss,
\* the average RTT and the jitter of the last hop with loss below 100, or
\* of the last hop when no hop has loss below 100.
C19_EndToEndReference ==
  (pc = "analyzed" /\ ~summary.empty) =>
    /\ summary.end_to_end_loss_percent = EndToEndHop(hops).loss_percent
    /\ summary.end_to_end_rtt_ms = EndToEndHop(hops).avg_ms
    /\ summary.end_to_end_jitter_ms = EndToEndHop(hops).stddev_ms

\* a responding hop followed by a silent one: the figures are the first's
C19_Witness ==
  /\ pc = "analyzed"
  /\ Len(hops) = 2
  /\ hops[1].loss_percent = 50 /\ hops[1].avg_ms = 2000
  /\ hops[2].loss_percent = 1000 /\ hops[2].avg_ms = 4
  /\ summary.end_to_end_loss_percent = 50
  /\ summary.end_to_end_rtt_ms = 2000

RECURSIVE SumAt(_, _, _)
\* the sum of field f over the positions in I
SumAt(hs, I, f) ==
  IF I = {} THEN 0
  ELSE LET i == CHOOSE j \in I : TRUE
       IN hs[i][f] + SumAt(hs, I \ {i}, f)

\* C20: the average loss, the average jitter and the largest jitter of the
\* summary are taken over the hops with loss below 100, and each is 0 when
\* there is no such hop.
C20_OverRespondingHopsOnly ==
  (pc = "analyzed" /\ ~summary.empty) =>
    \A R \in {RespondingAt(hops)} :
      IF R = {}
      THEN /\ summary.avg_loss_percent.num = 0
           /\ summary.avg_jitter_ms.num = 0
           /\ summary.max_jitter_ms = 0
      ELSE /\ summary.avg_loss_percent.num * Cardinality(R)
                = summary.avg_loss_percent.den * SumAt(hops, R, "loss_percent")
           /\ summary.avg_jitter_ms.num * Cardinality(R)
                = summary.avg_jitter_ms.den * SumAt(hops, R, "stddev_ms")
           /\ \E i \in R : summary.max_jitter_ms = hops[i].stddev_ms
           /\ \A i \in R : summary.max_jitter_ms >= hops[i].stddev_ms

\* ------------------------------------------------------------------------
\* properties of the path-level series
\* ------------------------------------------------------------------------
N_end_to_end_loss_percent ==
  <<"m","t","r","_","e","n","d","_","t","o","_","e","n","d","_","l","o","s","s","_","p","e","r","c","e","n","t">>
N_end_to_end_avg_rtt_ms ==
  <<"m","t","r","_","e","n","d","_","t","o","_","e","n","d","_","a","v","g","_","r","t","t","_","m","s">>
N_end_to_end_jitter_ms ==
  <<"m","t","r","_","e","n","d","_","t","o","_","e","n","d","_","j","i","t","t","e","r","_","m","s">>
N_responding_hop_count ==
  <<"m","t","r","_","r","e","s","p","o","n","d","i","n","g","_","h","o","p","_","c","o","u","n","t">>

\* the path-level families
PathFamilies ==
  {<<"m","t","r","_","i","n","f","o">>,
   <<"m","t","r","_","p","a","t","h","_","h","e","a","l","t","h","_","s","c","o","r","e">>,
   <<"m","t","r","_","p","a","t","h","_","r","t","t","_","v","a","r","i","a","n","c","e","_","m","s">>,
   <<"m","t","r","_","p","a","t","h","_","a","v","g","_","j","i","t","t","e","r","_","m","s">>,
   <<"m","t","r","_","p","a","t","h","_","m","a","x","_","j","i","t","t","e","r","_","m","s">>,
   <<"m","t","r","_","p","a","t","h","_","e","n","d","_","t","o","_","e","n","d","_","l","o","s","s","_","p","e","r","c","e","n","t">>,
   N_silent_hops_count, N_hop_count, N_responding_hop_count,
   N_end_to_end_loss_percent, N_end_to_end_avg_rtt_ms, N_end_to_end_jitter_ms}

\* the text after the last space of a line: the value of a sample
ValueOf(line) ==
  SubSeq(line, SetMax({i \in 1..Len(line) : line[i] = " "}) + 1, Len(line))

\* a figure in tenths printed with one or with two decimals
OneDecimal(v) ==
  IF v = NaN THEN <<"n", "a", "n">>
  ELSE (IF v < 0 THEN <<"-">> ELSE <<>>) \o
       NatToStr((IF v < 0 THEN 0 - v ELSE v) \div 10) \o <<".">> \o
       NatToStr((IF v < 0 THEN 0 - v ELSE v) % 10)
TwoDecimals(v) == IF v = NaN THEN OneDecimal(v) ELSE OneDecimal(v) \o <<"0">>

\* C21: whenever there is at least one hop, the rendering has exactly one
\* line of each of the twelve path-level families, and the values of the
\* three mtr_end_to_end_* lines are the end-to-end loss, RTT and jitter of
\* the summary.
C21_OneLinePerPathFamily ==
  (pc = "loop" /\ RenderedPlain /\ hops # <<>>) =>
    \A lines \in {RenderedLines} :
      /\ \A name \in PathFamilies : Cardinality(FamilyLines(lines, name)) = 1
      /\ \A i \in FamilyLines(lines, N_end_to_end_loss_percent) :
           ValueOf(lines[i]) = OneDecimal(summary.end_to_end_loss_percent)
      /\ \A i \in FamilyLines(lines, N_end_to_end_avg_rtt_ms) :
           ValueOf(lines[i]) = TwoDecimals(summary.end_to_end_rtt_ms)
      /\ \A i \in FamilyLines(lines, N_end_to_end_jitter_ms) :
           ValueOf(lines[i]) = TwoDecimals(summary.end_to_end_jitter_ms)

\* a lossy hop followed by a silent one, rendered: the end-to-end lines
\* carry the first hop's figures
C21_Witness ==
  /\ pc = "loop" /\ RenderedPlain
  /\ Len(hops) = 2
  /\ hops[1].loss_percent = 125 /\ hops[2].loss_percent = 1000
  /\ summary.end_to_end_rtt_ms = 2505
  /\ \E i \in 1..Len(RenderedLines) :
       /\ StartsWith(RenderedLines[i], N_end_to_end_avg_rtt_ms \o <<"{">>)
       /\ ValueOf(RenderedLines[i]) = <<"2","5","0",".","5","0">>

\* ------------------------------------------------------------------------
\* properties of the labels
\* ------------------------------------------------------------------------
\* the text between the first '{' and the last '}' of a line
LabelText(line) ==
  SubSeq(line, SetMin({i \in 1..Len(line) : line[i] = "{"}) + 1,
               SetMax({i \in 1..Len(line) : line[i] = "}"}) - 1)

\* the value of the label key="value"
LabelValue(part) ==
  SubSeq(part, SetMin({i \in 1..Len(part) : part[i] = "="}) + 2, Len(part) - 1)

\* the label values of a line whose labels hold no comma
LabelValues(line) ==
  LET parts == Split(LabelText(line), ",")
  IN {LabelValue(parts[i]) : i \in 1..Len(parts)}

\* the alphanumerics and - _ . : /
LabelChars == Letter \cup Digit \cup {"-", "_", ".", ":", "/"}

\* C22: in every line of the rendering every label value, the values of
\* the labels port and protocol of mtr_info included, consists only of
\* alphanumerics and the characters - _ . : /
C22_LabelValuesSanitized ==
  (pc = "loop" /\ RenderedPlain) =>
    \A lines \in {RenderedLines} :
      \A i \in 1..Len(lines) :
        \A v \in LabelValues(lines[i]) :
          \A k \in 1..Len(v) : v[k] \in LabelChars

\* ------------------------------------------------------------------------
\* properties of the tokens of a textual hop line
\* ------------------------------------------------------------------------
\* position of the first token ending in '%' after the hop-index token and
\* the host token
LossPosAfterHost(tok) ==
  CHOOSE p \in 3..Len(tok) :
    /\ EndsWith(tok[p], <<"%">>)
    /\ \A q \in 3..(p - 1) : ~EndsWith(tok[q], <<"%">>)

\* a hop line that is well-formed when the loss token is looked for after
\* the host token
WellFormedAfterHost(raw) ==
  LET tok == SplitWS(raw)
      p == LossPosAfterHost(tok)
      tail == SubSeq(tok, p + 1, Len(tok))
  IN /\ IsHopLine(Strip(raw))
     /\ Len(tok) >= 7
     /\ IsIntText(Split(tok[1], ".")[1])
     /\ \E q \in 3..Len(tok) : EndsWith(tok[q], <<"%">>)
     /\ IsNumText(RStripChar(tok[p], "%"))
     /\ Len(tail) >= 5
     /\ IsIntText(tail[1])
     /\ \A i \in 2..Min(Len(tail), 6) : IsNumText(tail[i])

\* C23: the loss of a recognised hop line is the number of the first token
\* ending in '%' among the tokens after the hop-index token and the host
\* token; a host token that ends in '%' is not taken as the loss token.
C23_LossTokenAfterHost ==
  pc = "parse_data" =>
    \A wf \in {SelectSeq(ReportLines(trace.text_input), WellFormedAfterHost)} :
      /\ Len(mtr_data.report.hubs) = Len(wf)
      /\ \A i \in 1..Len(wf) :
           mtr_data.report.hubs[i].Loss =
             FloatV(PyFloat(RStripChar(SplitWS(wf[i])[LossPosAfterHost(SplitWS(wf[i]))], "%")).v)

\* the record of the line "  1.|-- _gateway   0.0%    10  1.6  1.6  1.6  1.8  0.1"
GatewayHub ==
  [count |-> IntV(1), host |-> StrV(<<"_","g","a","t","e","w","a","y">>),
   Loss |-> FloatV(0), Snt |-> IntV(10), Last |-> FloatV(16), Avg |-> FloatV(16),
   Best |-> FloatV(16), Wrst |-> FloatV(18), StDev |-> FloatV(1)]

C25_HopFieldsInRange ==
  pc = "analyze" =>
    \A i \in 1..Len(hops) :
      /\ hops[i].loss_percent # NaN
      /\ hops[i].loss_percent >= 0 /\ hops[i].loss_percent <= 1000
      /\ hops[i].sent >= 0
      /\ \A f \in {"last_ms", "avg_ms", "best_ms", "worst_ms", "stddev_ms"} :
           hops[i][f] # NaN /\ hops[i][f] >= 0

\* the whole number a sample line of the family name carries
CountOf(lines, name) ==
  PyInt(ValueOf(lines[CHOOSE i \in FamilyLines(lines, name) : TRUE])).v

\* C26: the value of mtr_hop_count is the sum of the values of
\* mtr_silent_hops_count and mtr_responding_hop_count (every hop is either
\* responding or silent), and there are as many mtr_hop_info lines as
\* mtr_hop_count says.
C26_CountsConsistent ==
  (pc = "loop" /\ RenderedPlain) =>
    \A lines \in {RenderedLines} :
      /\ CountOf(lines, N_hop_count)
           = CountOf(lines, N_silent_hops_count) + CountOf(lines, N_responding_hop_count)
      /\ Cardinality(FamilyLines(lines, N_hop_info)) = CountOf(lines, N_hop_count)

\* C27: the status is CRITICAL exactly when the end-to-end loss is above
\* 50; with a loss of at most 50 a low score, 0 included, gives POOR at
\* worst.
C27_CriticalIffLossAbove50 ==
  (pc = "analyzed" /\ ~summary.empty) =>
    /\ summary.health_status = "CRITICAL" <=> summary.end_to_end_loss_percent > 500
    /\ (summary.end_to_end_loss_percent <= 500 /\ summary.health_score < 600)
         => summary.health_status = "POOR"

\* an end-to-end loss of exactly 50 brings the score to 0: the status is POOR
C27_Witness ==
  /\ pc = "analyzed"
  /\ ~summary.empty
  /\ summary.end_to_end_loss_percent = 500
  /\ summary.health_score = 0
  /\ summary.health_status = "POOR"

\* ------------------------------------------------------------------------
\* properties of the destination's permissions and of concurrent writers
\* ------------------------------------------------------------------------
\* C29: whenever the destination holds the newly written content its mode
\* is 0644: there is no step between the rename and the permission change
\* at which a reader finds the new file with another mode.
C29_NewContentAlreadyReadable ==
  (w_pc # "idle" /\ HoldsNewContent(dest)) => dest.mode = "0644"

\* call w has a temporary file of its own: from mkstemp to the rename
HoldsTemp(w) == writers.pc[w] \in {"write", "fsync", "rename"}

\* call w is over
Finished(w) == writers.pc[w] \in {"returned", "raised"}

KeysOnOneLine(p) ==
  \A i \in 1..Len(p.labels) : ~Contains(p.labels[i][1], <<"\n">>)

\* C30: the renderings of non-empty hop lists for probes whose label keys
\* hold no line break, joined and cleaned of blank lines, are accepted by
\* validate_prometheus_metrics: the run never ends at the validation
\* failure, and the text goes on to the writer as it was rendered.
C30_RenderedTextValidates ==
  (mode = "config" /\ all_metrics # <<>> /\ \A i \in 1..Len(probes) : KeysOnOneLine(probes[i])) =>
    /\ exit.reason # "validation"
    /\ pc \in {"validate", "write"} =>
         clean_metrics = DropBlankLines(Join(all_metrics, <<"\n">>))
    /\ pc = "write" => (~validated.none /\ validated.text = clean_metrics)

\* two renderings with a nan figure and a protocol holding a space, accepted
C30_Witness ==
  /\ mode = "config"
  /\ pc = "write"
  /\ probes = <<P_c, P_c>>
  /\ Len(all_metrics) = 2
  /\ \E i \in 1..Len(hops) : hops[i].loss_percent = NaN
  /\ hops[Len(hops)].loss_percent = NaN
  /\ Contains(validated.text, <<" ", "n", "a", "n", "\n">>)
  /\ exit = Running
====
